---- MODULE Spec2Model ----
(***************************************************************************)
(* Document -> Markdown conversion engine of the stock-broker assistant    *)
(* backend (backend/services/process_pdf.py): convert_pdf_to_md,           *)
(* convert_docx_to_md and the dispatcher convert_document_to_md.           *)
(*                                                                         *)
(* Text is modelled as sequences of one-character strings, so that         *)
(* trimming, emphasis wrapping, joining and prefixing are computed as the  *)
(* code computes them.  Characters outside ASCII are named by their code   *)
(* point ("U+2022" is the bullet).  Font sizes are integers in thousandths *)
(* of a point; rounded sizes are integers in hundredths of a point.        *)
(***************************************************************************)
EXTENDS Integers, Sequences, FiniteSets, TLC

----------------------------------------------------------------------------
(* Python string primitives used by the converter. *)

NoneVal == "None"

\* The class docx.Document, when the import of line 8 succeeds.
DocxClass == "docx.Document"

\* str.strip() / regex \s: the whitespace characters that occur in the inputs.
Whitespace == {" ", "\t", "\n", "\r"}

RECURSIVE LStrip(_)
LStrip(s) ==
    IF s = <<>> THEN <<>>
    ELSE IF Head(s) \in Whitespace THEN LStrip(Tail(s)) ELSE s

RECURSIVE RStrip(_)
RStrip(s) ==
    IF s = <<>> THEN <<>>
    ELSE IF s[Len(s)] \in Whitespace THEN RStrip(SubSeq(s, 1, Len(s) - 1)) ELSE s

Strip(s) == RStrip(LStrip(s))

RECURSIVE Concat(_)
Concat(ss) == IF ss = <<>> THEN <<>> ELSE Head(ss) \o Concat(Tail(ss))

RECURSIVE Join(_, _)
Join(sep, ss) ==
    IF ss = <<>> THEN <<>>
    ELSE IF Len(ss) = 1 THEN Head(ss)
    ELSE Head(ss) \o sep \o Join(sep, Tail(ss))

Repeat(ch, n) == [i \in 1..n |-> ch]

StartsWith(s, pre) == Len(s) >= Len(pre) /\ SubSeq(s, 1, Len(pre)) = pre

Contains(s, sub) ==
    \E i \in 1..(Len(s) - Len(sub) + 1) : SubSeq(s, i, i + Len(sub) - 1) = sub

UpperAlpha ==
    <<"A","B","C","D","E","F","G","H","I","J","K","L","M",
      "N","O","P","Q","R","S","T","U","V","W","X","Y","Z">>

LowerAlpha ==
    <<"a","b","c","d","e","f","g","h","i","j","k","l","m",
      "n","o","p","q","r","s","t","u","v","w","x","y","z">>

LowerChar(ch) ==
    IF \E i \in 1..26 : UpperAlpha[i] = ch
    THEN LowerAlpha[CHOOSE i \in 1..26 : UpperAlpha[i] = ch]
    ELSE ch

\* str.lower()
Lower(s) == [i \in 1..Len(s) |-> LowerChar(s[i])]

DigitChars == <<"0","1","2","3","4","5","6","7","8","9">>

IsDigit(ch) == \E i \in 1..10 : DigitChars[i] = ch

DigitValue(ch) == (CHOOSE i \in 1..10 : DigitChars[i] = ch) - 1

\* int(s) for a non-empty string of decimal digits
RECURSIVE ParseInt(_)
ParseInt(s) ==
    IF s = <<>> THEN 0
    ELSE 10 * ParseInt(SubSeq(s, 1, Len(s) - 1)) + DigitValue(s[Len(s)])

\* str(n) for n >= 0
RECURSIVE Str(_)
Str(n) ==
    IF n < 10 THEN <<DigitChars[n + 1]>>
    ELSE Str(n \div 10) \o <<DigitChars[(n % 10) + 1]>>

\* max of a non-empty sequence of integers
RECURSIVE MaxOf(_)
MaxOf(xs) ==
    IF Len(xs) = 1 THEN xs[1]
    ELSE LET m == MaxOf(Tail(xs)) IN IF xs[1] >= m THEN xs[1] ELSE m

\* number of (possibly overlapping) occurrences of pat in s
CountOcc(s, pat) ==
    Cardinality({i \in 1..(Len(s) - Len(pat) + 1) : SubSeq(s, i, i + Len(pat) - 1) = pat})

----------------------------------------------------------------------------
(* The decoded PDF document, as PyMuPDF's page.get_text("dict") presents   *)
(* it: a document is a sequence of pages, a page a sequence of blocks, a   *)
(* text block (type 0) a sequence of lines, a line a sequence of spans.    *)
(* get_text("dict") always yields a dict whose "blocks" is a list of       *)
(* dicts, so the isinstance guards of lines 65-69, 71, 74, 78, 81, 96-100, *)
(* 103, 108, 112 and 125 never take their "continue" branch.               *)

Span(t, sz, f) == [text |-> t, size |-> sz, font |-> f]

\* What doc.extract_image(xref) does for an image block.
Extraction(raises, has_bytes, bytes, ext) ==
    [raises |-> raises, has_bytes |-> has_bytes, image |-> bytes, ext |-> ext]

NoExtraction == Extraction(FALSE, FALSE, <<>>, <<>>)

TextBlock(lines) == [type |-> 0, lines |-> lines, xref |-> 0, extract |-> NoExtraction]

\* xref = 0 stands for a block whose "image" entry carries no xref.
ImageBlock(xref, extraction) ==
    [type |-> 1, lines |-> <<>>, xref |-> xref, extract |-> extraction]

\* round(float(size), 2): thousandths of a point to hundredths, ties to even.
Round2(sz) ==
    LET q == sz \div 10
        r == sz % 10
    IN  IF r > 5 \/ (r = 5 /\ q % 2 = 1) THEN q + 1 ELSE q

SanitizeChar(ch) ==
    IF ch = "\r" THEN <<>>
    ELSE IF ch = "\t" THEN <<" ", " ", " ", " ">>
    ELSE <<ch>>

\* A sanitiser that drops carriage returns and keeps tabs.
SanitizeMdKeepTabs(text) == SelectSeq(text, LAMBDA ch : ch # "\r")

\* _sanitize_md: drop carriage returns, expand tabs to four spaces.
SanitizeMd(text) == Concat([i \in 1..Len(text) |-> SanitizeChar(text[i])])

Stars(n) == Repeat("*", n)

WrapEmphasis(text, is_bold, is_italic) ==
    IF text = <<>> THEN text
    ELSE IF is_bold /\ is_italic THEN Stars(3) \o text \o Stars(3)
    ELSE IF is_bold THEN Stars(2) \o text \o Stars(2)
    ELSE IF is_italic THEN Stars(1) \o text \o Stars(1)
    ELSE text

IsBold(fontname) ==
    LET fontname_lower == Lower(fontname)
    IN  Contains(fontname_lower, <<"b","o","l","d">>)
        \/ Contains(fontname_lower, <<"b","l","a","c","k">>)

\* A test that reads the font name as it is spelt.
IsItalicCaseSensitive(fontname) ==
    Contains(fontname, <<"i","t","a","l","i","c">>)
        \/ Contains(fontname, <<"o","b","l","i","q","u","e">>)

IsItalic(fontname) ==
    LET fontname_lower == Lower(fontname)
    IN  Contains(fontname_lower, <<"i","t","a","l","i","c">>)
        \/ Contains(fontname_lower, <<"o","b","l","i","q","u","e">>)

\* One span of the span_texts loop (lines 124-140).
SpanText(span) ==
    IF Strip(span.text) = <<>> THEN span.text
    ELSE WrapEmphasis(span.text, IsBold(span.font), IsItalic(span.font))

\* The spans of a page's text blocks, in reading order (first pass).
RECURSIVE LinesSpans(_)
LinesSpans(lines) ==
    IF lines = <<>> THEN <<>> ELSE Head(lines) \o LinesSpans(Tail(lines))

RECURSIVE PageSpans(_)
PageSpans(blocks) ==
    IF blocks = <<>> THEN <<>>
    ELSE (IF Head(blocks).type = 0 THEN LinesSpans(Head(blocks).lines) ELSE <<>>)
         \o PageSpans(Tail(blocks))

\* sizes[sz] = sizes.get(sz, 0) + 1
AddSize(h, sz) ==
    IF sz \in DOMAIN h THEN [h EXCEPT ![sz] = @ + 1]
    ELSE [k \in DOMAIN h \cup {sz} |-> IF k = sz THEN 1 ELSE h[k]]

\* A histogram keyed by the sizes as the decoder reports them, unrounded.
RECURSIVE CountSpansRaw(_, _)
CountSpansRaw(h, spans) ==
    IF spans = <<>> THEN h
    ELSE CountSpansRaw(AddSize(h, Head(spans).size), Tail(spans))

\* The first pass over a sequence of spans, lines 80-84.
RECURSIVE CountSpans(_, _)
CountSpans(h, spans) ==
    IF spans = <<>> THEN h
    ELSE CountSpans(AddSize(h, Round2(Head(spans).size)), Tail(spans))

EmptyDict == [k \in {} |-> 0]

\* sorted(keys), without reverse=True
RECURSIVE SortedAsc(_)
SortedAsc(S) ==
    IF S = {} THEN <<>>
    ELSE LET m == CHOOSE x \in S : \A y \in S : x <= y
         IN  <<m>> \o SortedAsc(S \ {m})

\* sorted(keys, reverse=True)
RECURSIVE SortedDesc(_)
SortedDesc(S) ==
    IF S = {} THEN <<>>
    ELSE LET m == CHOOSE x \in S : \A y \in S : y <= x
         IN  <<m>> \o SortedDesc(S \ {m})

\* How many of the ranked sizes receive a heading level (unique_sizes[:3]).
HeadingLevels == 3

Take(xs, n) == SubSeq(xs, 1, IF Len(xs) < n THEN Len(xs) ELSE n)

\* A map that ranks the sizes by how often they occur, then by magnitude.
SizeToHeadingByCount(h) ==
    LET top == Take(SortedDesc({h[k] * 1000000 + k : k \in DOMAIN h}), HeadingLevels)
    IN  [sz \in {top[i] % 1000000 : i \in 1..Len(top)} |->
            CHOOSE i \in 1..Len(top) : top[i] % 1000000 = sz]

\* size_to_heading = {sz: idx + 1 for idx, sz in enumerate(unique_sizes[:3])}
SizeToHeading(h) ==
    LET top == Take(SortedDesc(DOMAIN h), HeadingLevels)
    IN  [sz \in {top[i] : i \in 1..Len(top)} |->
            CHOOSE i \in 1..Len(top) : top[i] = sz]

----------------------------------------------------------------------------
(* The bullet pattern of lines 146 and 148,                                *)
(*     ^[\u2022\u2023\u25E6\u2043\-\*\o]\s+                           *)
(* as Python's re module reads it.  Inside a character class an escaped    *)
(* ASCII letter must be one of the escapes re knows; any other one makes   *)
(* re.match and re.sub raise re.error ("bad escape") when the pattern is   *)
(* compiled, whatever the subject string is.                               *)

ClassItem(esc, ch) == [esc |-> esc, ch |-> ch]

BulletClass ==
    << ClassItem(FALSE, "U+2022"), ClassItem(FALSE, "U+2023"),
       ClassItem(FALSE, "U+25E6"), ClassItem(FALSE, "U+2043"),
       ClassItem(TRUE, "-"), ClassItem(TRUE, "*"), ClassItem(TRUE, "o") >>

AsciiLetters == {UpperAlpha[i] : i \in 1..26} \cup {LowerAlpha[i] : i \in 1..26}

\* The letters re accepts after a backslash inside a character class.
ClassEscapeLetters ==
    {"a","b","f","n","r","t","v","d","D","s","S","w","W","x","u","U","N"}

ReBadEscape(class) ==
    \E i \in 1..Len(class) :
        class[i].esc /\ class[i].ch \in AsciiLetters
                     /\ class[i].ch \notin ClassEscapeLetters

ClassChars(class) == {class[i].ch : i \in 1..Len(class)}

\* Length of the match of ^[class]\s+ at the start of s, 0 when there is none.
BulletPrefixLen(class, s) ==
    IF Len(s) >= 2 /\ s[1] \in ClassChars(class) /\ s[2] \in Whitespace
    THEN 1 + Len(SubSeq(s, 2, Len(s))) - Len(LStrip(SubSeq(s, 2, Len(s))))
    ELSE 0

Hashes(n) == Repeat("#", n)

(* One line of a text block in the second pass (lines 110-156).  The       *)
(* result says what the iteration does: "skip" (continue at line 144),     *)
(* "raise" (re.error out of line 146) or "emit" (append entry).            *)
ProcessLine(spans, size_to_heading) ==
    LET texted == SelectSeq(spans, LAMBDA sp : sp.text # <<>>)
        line_sizes == [i \in 1..Len(texted) |-> Round2(texted[i].size)]
        dominant_size == IF line_sizes # <<>> THEN MaxOf(line_sizes) ELSE 0
        heading_level ==
            IF dominant_size \in DOMAIN size_to_heading
            THEN size_to_heading[dominant_size] ELSE 0
        span_texts == [i \in 1..Len(spans) |-> SpanText(spans[i])]
        raw_line == SanitizeMd(Strip(Concat(span_texts)))
        n == BulletPrefixLen(BulletClass, raw_line)
        base == [dominant_size |-> dominant_size, heading_level |-> heading_level,
                 span_texts |-> span_texts, raw_line |-> raw_line]
    IN  IF raw_line = <<>> THEN base @@ [kind |-> "skip", entry |-> <<>>]
        ELSE IF ReBadEscape(BulletClass) THEN base @@ [kind |-> "raise", entry |-> <<>>]
        ELSE IF n > 0
             THEN base @@ [kind |-> "emit",
                           entry |-> <<"-", " ">> \o SubSeq(raw_line, n + 1, Len(raw_line))]
        ELSE IF heading_level # 0
             THEN base @@ [kind |-> "emit",
                           entry |-> Hashes(heading_level) \o <<" ">> \o raw_line]
        ELSE base @@ [kind |-> "emit", entry |-> raw_line]

----------------------------------------------------------------------------
(* Image handling (lines 158-187): base64, file names and the filesystem.  *)

B64Alphabet ==
    UpperAlpha \o LowerAlpha \o DigitChars \o <<"+", "/">>

B64Char(n) == B64Alphabet[(n % 64) + 1]

\* base64.b64encode(data).decode("ascii")
RECURSIVE B64Encode(_)
B64Encode(bytes) ==
    IF bytes = <<>> THEN <<>>
    ELSE IF Len(bytes) = 1
         THEN LET n == bytes[1] * 65536
              IN  <<B64Char(n \div 262144), B64Char(n \div 4096), "=", "=">>
    ELSE IF Len(bytes) = 2
         THEN LET n == bytes[1] * 65536 + bytes[2] * 256
              IN  <<B64Char(n \div 262144), B64Char(n \div 4096), B64Char(n \div 64), "=">>
    ELSE LET n == bytes[1] * 65536 + bytes[2] * 256 + bytes[3]
         IN  <<B64Char(n \div 262144), B64Char(n \div 4096), B64Char(n \div 64), B64Char(n)>>
             \o B64Encode(SubSeq(bytes, 4, Len(bytes)))

\* A name that carries the 0-based page index.
ImgNameZeroBased(page_number, xref, img_ext) ==
    <<"p","a","g","e">> \o Str(page_number) \o <<"_","i","m","g">> \o Str(xref)
        \o <<".">> \o img_ext

\* f"page{page_number + 1}_img{xref}.{img_ext}", page_number counted from 0
ImgName(page_number, xref, img_ext) ==
    <<"p","a","g","e">> \o Str(page_number + 1) \o <<"_","i","m","g">> \o Str(xref)
        \o <<".">> \o img_ext

\* A join that puts a separator after every directory name.
PathJoinAlwaysSep(dir, name) == dir \o <<"/">> \o name

\* os.path.join(images_dir, img_name) for a directory name that is not empty
\* and a relative file name: no separator is added after a trailing "/".
PathJoin(dir, name) ==
    IF dir[Len(dir)] = "/" THEN dir \o name ELSE dir \o <<"/">> \o name

ImageTag == <<"!","[","i","m","a","g","e","]","(">>

\* f"![image]({img_path})"
ImageLinkLine(img_path) == ImageTag \o img_path \o <<")">>

\* f"![image](data:image/{img_ext};base64,{b64})"
ImageDataLine(img_ext, img_data) ==
    ImageTag \o <<"d","a","t","a",":","i","m","a","g","e","/">> \o img_ext
        \o <<";","b","a","s","e","6","4",",">> \o B64Encode(img_data) \o <<")">>

(* The filesystem: the directories that exist and the content of each      *)
(* regular file, both keyed by path.                                       *)
EmptyFs == [dirs |-> {}, files |-> [p \in {} |-> <<>>]]

Ancestors(path) == {SubSeq(path, 1, i - 1) : i \in {j \in 2..Len(path) : path[j] = "/"}}

\* The directory a name refers to: trailing separators do not count.
RECURSIVE DirOf(_)
DirOf(path) ==
    IF Len(path) > 1 /\ path[Len(path)] = "/" THEN DirOf(SubSeq(path, 1, Len(path) - 1))
    ELSE path

\* os.makedirs(path, exist_ok=True) raises when the path or one of its
\* ancestors exists and is a regular file.
MakedirsFails(fs, path) ==
    \E p \in Ancestors(path) \cup {DirOf(path)} : p \in DOMAIN fs.files

Makedirs(fs, path) == [fs EXCEPT !.dirs = @ \cup Ancestors(path) \cup {DirOf(path)}]

\* open(path, "xb"): exclusive creation also raises when the file exists.
OpenXbFails(fs, path) == path \in fs.dirs \/ path \in DOMAIN fs.files

\* open(path, "wb") raises when the path is a directory.
OpenWbFails(fs, path) == path \in fs.dirs

WriteFile(fs, path, data) ==
    [fs EXCEPT !.files =
        [p \in DOMAIN fs.files \cup {path} |-> IF p = path THEN data ELSE fs.files[p]]]

\* The page-break entry appended after every page but the last (line 190).
PageBreak == <<"\n", "-", "-", "-", "\n">>

\* The test of line 189 with the last page taken to be number total_pages.
NotLastPageOffByOne(page_number, total_pages) == page_number # total_pages

\* if page_number != total_pages - 1, line 189
NotLastPage(page_number, total_pages) == page_number # total_pages - 1

\* "\n".join(md_lines), without the final .strip()
PdfResultUntrimmed(md_lines) == Join(<<"\n">>, md_lines)

\* "\n".join(md_lines).strip()
PdfResult(md_lines) == Strip(Join(<<"\n">>, md_lines))

----------------------------------------------------------------------------
(* convert_docx_to_md (lines 197-222).  A paragraph has a text and a       *)
(* style; has_style = FALSE stands for para.style being None.              *)

Para(text, has_style, style_name) ==
    [text |-> text, has_style |-> has_style, style_name |-> style_name]

MinInt(a, b) == IF a <= b THEN a ELSE b

MaxInt(a, b) == IF a >= b THEN a ELSE b

\* The largest heading level convert_docx_to_md emits (line 213).
MaxDocxLevel == 6

\* level = max(1, min(int(digits or "1"), 6))
DocxHeadingLevel(style_name) ==
    LET digits == SelectSeq(style_name, IsDigit)
    IN  MaxInt(1, MinInt(ParseInt(IF digits = <<>> THEN <<"1">> ELSE digits), MaxDocxLevel))

\* The paragraph mapping with the list test made before the heading test.
DocxEntryListFirst(para) ==
    LET text == Strip(para.text)
        style_name == IF para.has_style THEN para.style_name ELSE <<>>
    IN  IF text = <<>> THEN <<>>
        ELSE IF Contains(Lower(style_name), <<"l","i","s","t">>)
             THEN <<"-", " ">> \o text
        ELSE IF StartsWith(Lower(style_name), <<"h","e","a","d","i","n","g">>)
             THEN Hashes(DocxHeadingLevel(style_name)) \o <<" ">> \o text
        ELSE text

\* The md_lines entry of one paragraph (lines 204-220).
DocxEntry(para) ==
    LET text == Strip(para.text)
        style_name == IF para.has_style THEN para.style_name ELSE <<>>
    IN  IF text = <<>> THEN <<>>
        ELSE IF StartsWith(Lower(style_name), <<"h","e","a","d","i","n","g">>)
             THEN Hashes(DocxHeadingLevel(style_name)) \o <<" ">> \o text
        ELSE IF Contains(Lower(style_name), <<"l","i","s","t">>)
             THEN <<"-", " ">> \o text
        ELSE text

\* A result whose entries are joined by a single newline.
DocxResultSingleNewline(md_lines) == Strip(Join(<<"\n">>, md_lines))

\* "\n\n".join(line for line in md_lines if line is not None).strip()
DocxResult(md_lines) == Strip(Join(<<"\n", "\n">>, md_lines))

----------------------------------------------------------------------------
(* convert_document_to_md (lines 225-234): Path(path).suffix.lower().      *)

\* PurePath.name: the last component of a path that does not end in "/".
RECURSIVE PathName(_)
PathName(path) ==
    IF \E i \in 1..Len(path) : path[i] = "/"
    THEN PathName(Tail(path))
    ELSE path

\* PurePath.suffix: from the last dot of the name, unless that dot is the
\* first or the last character of the name.
Suffix(path) ==
    LET name == PathName(path)
        dots == {i \in 1..Len(name) : name[i] = "."}
        i == CHOOSE d \in dots : \A e \in dots : e <= d
    IN  IF dots # {} /\ 1 < i /\ i < Len(name) THEN SubSeq(name, i, Len(name)) ELSE <<>>

PdfExt == <<".", "p", "d", "f">>

DocxExt == <<".", "d", "o", "c", "x">>

\* The dispatch with the suffix compared as it is written, without .lower().
PipelineCaseSensitive(path) ==
    LET ext == Suffix(path)
    IN  IF ext = PdfExt THEN "pdf"
        ELSE IF ext = DocxExt THEN "docx"
        ELSE "unsupported"

\* Which pipeline convert_document_to_md hands the path to.
Pipeline(path) ==
    LET ext == Lower(Suffix(path))
    IN  IF ext = PdfExt THEN "pdf"
        ELSE IF ext = DocxExt THEN "docx"
        ELSE "unsupported"

----------------------------------------------------------------------------
(* Inputs.  The files a call may be given and the arguments it may pass.   *)

\* Bounds of the model.
MaxTokens == 3

MaxParas == 2

MaxCalls == 3

Slots == {1, 2}

FontPlain == <<"S","a","n","s">>

FontBold == <<"S","a","n","s","-","B","o","l","d">>

FontOblique == <<"S","A","N","S","-","O","B","L","I","Q","U","E">>

\* Text blocks: lines of spans.  Sizes are in thousandths of a point.
BlankLine(sz) == <<Span(<<" ">>, sz, FontPlain)>>

BlkBlank18and16 == TextBlock(<<BlankLine(18000), BlankLine(16000)>>)

BlkBlank14 == TextBlock(<<BlankLine(14000)>>)

BlkBlank12 == TextBlock(<<BlankLine(12004)>>)

BlkEmpty20 == TextBlock(<< <<Span(<<>>, 20000, FontPlain)>> >>)

BlkText12 == TextBlock(<< <<Span(<<"a">>, 12000, FontPlain)>> >>)

BlkBullet12 == TextBlock(<< <<Span(<<"U+2022", " ", "a">>, 12000, FontBold)>> >>)

BlkDash14 ==
    TextBlock(<< <<Span(<<"-", " ">>, 14000, FontPlain), Span(<<"b">>, 12000, FontOblique)>> >>)

\* The letter o and a blank before the text.
BlkLetterO12 == TextBlock(<< <<Span(<<"o", " ", "a">>, 12000, FontPlain)>> >>)

\* An oblique run that begins with a blank: wrapped, it reads "* a*".
BlkOblique12 == TextBlock(<< <<Span(<<" ", "a">>, 12000, FontOblique)>> >>)

FontBlackItalic == <<"A","r","i","a","l","-","B","l","a","c","k","I","t","a","l","i","c">>

\* A blank run in an emphasised font, then a run with a carriage return
\* and a tab inside and a tab at its end.
BlkTabbed12 ==
    TextBlock(<< <<Span(<<" ">>, 12000, FontBlackItalic),
                  Span(<<"a", "\r", "\t", "b", "\t">>, 12000, FontBlackItalic)>> >>)

PngExt == <<"p","n","g">>

ImgOk == ImageBlock(5, Extraction(FALSE, TRUE, <<137, 80>>, PngExt))

\* The resource id of ImgOk with another payload.
ImgRival == ImageBlock(5, Extraction(FALSE, TRUE, <<66>>, PngExt))

ImgRaises == ImageBlock(6, Extraction(TRUE, FALSE, <<>>, <<>>))

ImgNoBytes == ImageBlock(7, Extraction(FALSE, FALSE, <<>>, PngExt))

ImgNoXref == ImageBlock(0, NoExtraction)

\* A token of a document's layout: a block, or the end of a page.
EndOfPage == [type |-> 2, lines |-> <<>>, xref |-> 0, extract |-> NoExtraction]

Blocks ==
    {BlkBlank18and16, BlkBlank14, BlkBlank12, BlkEmpty20, BlkText12, BlkBullet12,
     BlkDash14, BlkLetterO12, BlkOblique12, BlkTabbed12, ImgOk, ImgRaises, ImgNoBytes, ImgNoXref}

Tokens == Blocks \cup {EndOfPage}

\* The pages a token sequence lays out: at least one page.
RECURSIVE PagesOf(_)
PagesOf(tokens) ==
    IF tokens = <<>> THEN << <<>> >>
    ELSE LET before == PagesOf(SubSeq(tokens, 1, Len(tokens) - 1))
             last == tokens[Len(tokens)]
         IN  IF last = EndOfPage THEN Append(before, <<>>)
             ELSE [before EXCEPT ![Len(before)] = Append(@, last)]

File(kind, pages, paras) == [kind |-> kind, pages |-> pages, paras |-> paras]

PdfFile(pages) == File("pdf", pages, <<>>)

DocxFile(paras) == File("docx", <<>>, paras)

\* A file neither decoder can open.
CorruptFile == File("corrupt", <<>>, <<>>)

\* A PDF that opens and counts one page, which cannot be read.
DamagedFile == File("damaged", << <<>> >>, <<>>)

NoFile == File("none", <<>>, <<>>)

SeqsUpTo(S, n) == UNION {[1..k -> S] : k \in 0..n}

PdfDocs ==
    {PdfFile(PagesOf(ts)) : ts \in SeqsUpTo(Tokens, MaxTokens)} \cup {PdfFile(<<>>)}

ParaTexts == {<<>>, <<" ", "a", " ">>, <<" ">>}

StyleNames ==
    { <<"N","o","r","m","a","l">>,
      <<"H","e","a","d","i","n","g"," ","2">>,
      <<"h","e","a","d","i","n","g">>,
      <<"H","E","A","D","I","N","G"," ","9">>,
      <<"H","e","a","d","i","n","g"," ","2"," ","v","1">>,
      <<"L","i","s","t"," ","B","u","l","l","e","t">>,
      <<"H","e","a","d","i","n","g"," ","L","i","s","t">>,
      <<"C","h","e","c","k","l","i","s","t">> }

Paras ==
    {Para(t, TRUE, s) : t \in ParaTexts, s \in StyleNames}
        \cup {Para(t, FALSE, <<>>) : t \in ParaTexts}

DocxDocs == {DocxFile(ps) : ps \in SeqsUpTo(Paras, MaxParas)}

DirOne == <<"d","1">>

DirTwo == <<"d","2">>

\* DirOne spelt with a trailing separator.
DirOneSlash == <<"d","1","/">>

\* A directory name that is also the path of an image file written into DirOne.
DirClash == PathJoin(DirOne, ImgName(0, 5, PngExt))

\* images_dir = <<>> stands for None (and for "", which is falsy too).
NoDir == <<>>

PdfPath == <<"r",".","p","d","f">>

DocxPath == <<"r",".","d","o","c","x">>

Paths ==
    { PdfPath, DocxPath,
      <<"R",".","P","D","F">>, <<"r",".","P","d","f">>,
      <<"r",".","D","o","c","X">>,
      <<"r",".","t","x","t">>, <<"r">>, <<".","p","d","f">>,
      <<"r",".","p","d","f",".","t","x","t">>, <<"r",".","p","d","f",".">>,
      <<"a",".","p","d","f","/","r">>, <<"r",".","p","d">> }

\* The documents of the scenarios with more than one call.
SmallPdfDocs ==
    { PdfFile(<< <<ImgOk>> >>),
      PdfFile(<< <<BlkBlank14, ImgRaises>>, <<ImgOk>> >>),
      PdfFile(<< <<BlkText12>> >>) }

\* A document whose first page holds an image named like that of the first
\* of the small documents, with other bytes.
RivalPdfDoc == PdfFile(<< <<ImgRival>> >>)

SmallDocxDocs == {DocxFile(<<Para(<<"a">>, TRUE, <<"H","e","a","d","i","n","g"," ","2">>)>>)}

Args(entry, path, file, images_dir, include_images) ==
    [entry |-> entry, path |-> path, file |-> file,
     images_dir |-> images_dir, include_images |-> include_images]

NoArgs == Args("none", <<>>, NoFile, NoDir, TRUE)

NoRet == [status |-> "none", value |-> <<>>, error |-> "none"]

Value(v) == [status |-> "value", value |-> v, error |-> "none"]

Raised(e) == [status |-> "error", value |-> <<>>, error |-> e]

NoImg == [data |-> <<>>, ext |-> <<>>, path |-> <<>>]

StartPos == [page |-> 1, block |-> 1, line |-> 1]

NoHandle == [opens |-> 0, closes |-> 0]

----------------------------------------------------------------------------

\* One module-level frame that every call would share.
FrameShared(c) == 1

(* sizes, size_to_heading and md_lines are locals of convert_pdf_to_md     *)
(* (lines 61, 87 and 91): each call has a frame of its own.                *)
Frame(c) == c

VARIABLES
    Document,         \* the module global of lines 7-10: the docx class, or None
    scenario,         \* "single", "nodocx", "sequential" or "concurrent": what may be called
    ncalls,           \* calls started so far
    pc,               \* per slot: where the call running in it stands
    args,             \* per slot: the arguments of the call
    handle,           \* per slot: opens and closes of the fitz document handle
    sizes,            \* per slot: the font-size histogram (line 61)
    size_to_heading,  \* per slot: the heading-level map (line 87)
    md_lines,         \* per slot: the accumulated output entries (lines 91, 201)
    pos,              \* per slot: page, block and line the traversal stands at
    img,              \* per slot: img_data, img_ext and img_path of the image in hand
    ret,              \* per slot: what the call returned or raised
    line_log,         \* per slot: dominant_size and heading_level of each line visited
    extracted,        \* per slot: the xrefs passed to doc.extract_image, in order
    opened,           \* per slot: the decoders the call has asked to open its file
    fs,               \* the filesystem
    outcomes          \* history: arguments and result of every call that ended, in order

\* The state of the routes that call the converters.
VARIABLES
    uploaded_files,    \* routes/financial_data.py line 24: file_id -> metadata
    uploaded_reports,  \* routes/report_analysis.py line 23: file_id -> metadata
    tmp,               \* the temporary directory: path -> the uploaded file
    req,               \* per request slot: the request and where its handler stands
    nreqs,             \* requests received so far
    converted          \* history: per file_id, the calls of convert_document_to_md so far

cvars ==
    <<Document, scenario, ncalls, pc, args, handle, sizes, size_to_heading, md_lines, pos,
      img, ret, line_log, extracted, opened, fs, outcomes>>

rvars == <<uploaded_files, uploaded_reports, tmp, req, nreqs, converted>>

vars == <<cvars, rvars>>

Scenarios == {"single", "nodocx", "sequential", "concurrent"}

\* The slots (worker threads) a scenario runs calls in, and how many calls.
SlotsOf(sc) == IF sc = "concurrent" THEN Slots ELSE {1}

CallsOf(sc) ==
    IF sc \in {"single", "nodocx"} THEN 1
    ELSE IF sc = "sequential" THEN MaxCalls ELSE Cardinality(Slots)

\* What each entry point may be called with.  A lone call ("single") ranges
\* over every document and path; a sequence of calls goes through the
\* dispatcher and calls that overlap enter convert_pdf_to_md directly, the
\* way the two routes make them, over the small documents.  A lone call of
\* convert_pdf_to_md with include_images false is given an images_dir, which
\* it must leave alone.
DocumentInputs(sc) ==
    IF sc \in {"single", "nodocx"}
    THEN {Args("document", p, f, d, i) :
            p \in Paths, f \in SmallPdfDocs \cup SmallDocxDocs \cup {CorruptFile},
            d \in {NoDir, DirOne}, i \in BOOLEAN}
    ELSE IF sc = "sequential"
    THEN {Args("document", PdfPath, f, d, TRUE) :
            f \in SmallPdfDocs, d \in {NoDir, DirOne, DirTwo, DirClash}}
    ELSE {}

PdfInputs(sc) ==
    IF sc = "single"
    THEN {Args("pdf", PdfPath, f, k[1], k[2]) :
            f \in PdfDocs \cup {CorruptFile, DamagedFile},
            k \in {<<NoDir, TRUE>>, <<DirOne, TRUE>>, <<DirOne, FALSE>>}}
    ELSE IF sc = "concurrent"
    THEN {Args("pdf", PdfPath, f, d, TRUE) :
            f \in SmallPdfDocs \cup {RivalPdfDoc},
            d \in {NoDir, DirOne, DirOneSlash, DirTwo, DirClash}}
    ELSE {}

DocxInputs(sc) ==
    IF sc \in {"single", "nodocx"}
    THEN {Args("docx", DocxPath, f, NoDir, TRUE) : f \in DocxDocs \cup {CorruptFile}}
    ELSE {}

\* The slots of the requests that may be in progress at once.
Reqs == {1, 2}

\* An optional string: None, or a text (which may be empty).
Absent == [none |-> TRUE, text |-> <<>>]

Given(text) == [none |-> FALSE, text |-> text]

Request(endpoint, filename, file, report, file_id) ==
    [endpoint |-> endpoint, pc |-> "handler", filename |-> filename, file |-> file,
     report |-> report, file_id |-> file_id, content |-> Absent, status |-> 0]

NoReq == [Request("none", <<>>, NoFile, Absent, Absent) EXCEPT !.pc = "idle"]

\* The module globals of the routes after import, and no request yet.
RoutesInit ==
    /\ uploaded_files = EmptyDict
    /\ uploaded_reports = EmptyDict
    /\ tmp = EmptyDict
    /\ req = [r \in Reqs |-> NoReq]
    /\ nreqs = 0
    /\ converted = EmptyDict

\* The import of lines 7-10 leaves Document bound to the class, or to None
\* in the runs without python-docx.
Init ==
    /\ scenario \in Scenarios
    /\ Document = IF scenario = "nodocx" THEN NoneVal ELSE DocxClass
    /\ ncalls = 0
    /\ pc = [c \in Slots |-> "idle"]
    /\ args = [c \in Slots |-> NoArgs]
    /\ handle = [c \in Slots |-> NoHandle]
    /\ sizes = [c \in Slots |-> EmptyDict]
    /\ size_to_heading = [c \in Slots |-> EmptyDict]
    /\ md_lines = [c \in Slots |-> <<>>]
    /\ pos = [c \in Slots |-> StartPos]
    /\ img = [c \in Slots |-> NoImg]
    /\ ret = [c \in Slots |-> NoRet]
    /\ line_log = [c \in Slots |-> <<>>]
    /\ extracted = [c \in Slots |-> <<>>]
    /\ opened = [c \in Slots |-> {}]
    /\ fs = EmptyFs
    /\ outcomes = <<>>
    /\ RoutesInit

CanCall(c) ==
    /\ c \in SlotsOf(scenario)
    /\ pc[c] = "idle"
    /\ ncalls < CallsOf(scenario)

\* The locals of a call that has just been entered.
Enter(c, a) ==
    /\ ncalls' = ncalls + 1
    /\ args' = [args EXCEPT ![c] = a]
    /\ handle' = [handle EXCEPT ![c] = NoHandle]
    /\ sizes' = [sizes EXCEPT ![Frame(c)] = EmptyDict]
    /\ size_to_heading' = [size_to_heading EXCEPT ![Frame(c)] = EmptyDict]
    /\ md_lines' = [md_lines EXCEPT ![Frame(c)] = <<>>]
    /\ pos' = [pos EXCEPT ![c] = StartPos]
    /\ img' = [img EXCEPT ![c] = NoImg]
    /\ line_log' = [line_log EXCEPT ![c] = <<>>]
    /\ extracted' = [extracted EXCEPT ![c] = <<>>]
    /\ opened' = [opened EXCEPT ![c] = {}]
    /\ UNCHANGED <<rvars, Document, scenario, fs, outcomes>>

(* convert_document_to_md(path, **kwargs), lines 225-234: the suffix test  *)
(* and the hand-over to a pipeline, or the ValueError.                     *)
ConvertDocument(c) ==
    /\ CanCall(c)
    /\ \E a \in DocumentInputs(scenario) :
          /\ Enter(c, a)
          /\ pc' = [pc EXCEPT ![c] =
                       IF Pipeline(a.path) = "pdf" THEN "pdf_open"
                       ELSE IF Pipeline(a.path) = "docx" THEN "docx_open"
                       ELSE "raised"]
          /\ ret' = [ret EXCEPT ![c] =
                       IF Pipeline(a.path) = "unsupported" THEN Raised("ValueError")
                       ELSE NoRet]

(* convert_pdf_to_md(pdf_path, images_dir, include_images) called directly *)
(* (routes/financial_data.py line 108).                                    *)
ConvertPdf(c) ==
    /\ CanCall(c)
    /\ \E a \in PdfInputs(scenario) : Enter(c, a)
    /\ pc' = [pc EXCEPT ![c] = "pdf_open"]
    /\ ret' = [ret EXCEPT ![c] = NoRet]

(* convert_docx_to_md(docx_path) called directly.                          *)
ConvertDocx(c) ==
    /\ CanCall(c)
    /\ \E a \in DocxInputs(scenario) : Enter(c, a)
    /\ pc' = [pc EXCEPT ![c] = "docx_open"]
    /\ ret' = [ret EXCEPT ![c] = NoRet]

----------------------------------------------------------------------------
(* convert_pdf_to_md, lines 59-194.                                        *)

Pages(c) == args[c].file.pages

\* The block the second pass stands at.
CurBlock(c) == Pages(c)[pos[c].page][pos[c].block]

NextBlock(p) == [p EXCEPT !.block = @ + 1, !.line = 1]

\* A decoder that hands out a document for whatever file it is given.
FitzOpenLenient(file) == "doc"

\* What fitz.open does with a file: a document, or an error for a file that
\* is not a readable PDF.
FitzOpen(file) == IF file.kind \in {"pdf", "damaged"} THEN "doc" ELSE "error"

\* doc = fitz.open(pdf_path), line 59, outside the try block: the decoder's
\* error leaves the call as it is.
PdfOpen(c) ==
    /\ pc[c] = "pdf_open"
    /\ opened' = [opened EXCEPT ![c] = @ \cup {"fitz"}]
    /\ IF FitzOpen(args[c].file) = "doc"
       THEN /\ handle' = [handle EXCEPT ![c].opens = @ + 1]
            /\ pc' = [pc EXCEPT ![c] = "pass1"]
            /\ ret' = ret
       ELSE /\ handle' = handle
            /\ pc' = [pc EXCEPT ![c] = "raised"]
            /\ ret' = [ret EXCEPT ![c] = Raised("open_error")]
    /\ UNCHANGED <<rvars, Document, extracted, scenario, ncalls, args, sizes, size_to_heading, md_lines, pos,
                   img, line_log, fs, outcomes>>

\* One page of the first pass, lines 62-84; an error of load_page or
\* get_text (lines 63-64) goes to the finally clause.
Pass1Page(c) ==
    /\ pc[c] = "pass1"
    /\ pos[c].page <= Len(Pages(c))
    /\ IF args[c].file.kind = "damaged"
       THEN /\ ret' = [ret EXCEPT ![c] = Raised("page_error")]
            /\ pc' = [pc EXCEPT ![c] = "close"]
            /\ UNCHANGED <<sizes, pos>>
       ELSE /\ sizes' = [sizes EXCEPT ![Frame(c)] =
                   CountSpans(@, PageSpans(Pages(c)[pos[c].page]))]
            /\ pos' = [pos EXCEPT ![c].page = @ + 1]
            /\ UNCHANGED <<pc, ret>>
    /\ UNCHANGED <<rvars, Document, extracted, scenario, ncalls, args, handle, size_to_heading, md_lines,
                   img, line_log, extracted, opened, fs, outcomes>>

\* A first pass that may stop after any page past the first.
Pass1DoneEarly(c) == pos[c].page > 1

\* for page_index in range(doc.page_count), line 62, is exhausted.
Pass1Done(c) == pos[c].page > Len(Pages(c))

\* Lines 86-92: the heading map, and the start of the second pass.
Classify(c) ==
    /\ pc[c] = "pass1"
    /\ Pass1Done(c)
    /\ size_to_heading' = [size_to_heading EXCEPT ![Frame(c)] = SizeToHeading(sizes[Frame(c)])]
    /\ md_lines' = [md_lines EXCEPT ![Frame(c)] = <<>>]
    /\ pos' = [pos EXCEPT ![c] = StartPos]
    /\ pc' = [pc EXCEPT ![c] = "pass2"]
    /\ UNCHANGED <<rvars, Document, extracted, scenario, ncalls, args, handle, sizes, img, ret, line_log, opened, fs,
                   outcomes>>

InPage(c) == pc[c] = "pass2" /\ pos[c].page <= Len(Pages(c))

AtBlock(c) == InPage(c) /\ pos[c].block <= Len(Pages(c)[pos[c].page])

\* One line of a text block, lines 106-156 (a block without lines is passed over).
TextLine(c) ==
    /\ AtBlock(c)
    /\ CurBlock(c).type = 0
    /\ LET lines == CurBlock(c).lines
           after == IF pos[c].line >= Len(lines) THEN NextBlock(pos[c])
                    ELSE [pos[c] EXCEPT !.line = @ + 1]
       IN  IF lines = <<>>
           THEN /\ pos' = [pos EXCEPT ![c] = after]
                /\ UNCHANGED <<pc, ret, md_lines, line_log>>
           ELSE LET r == ProcessLine(lines[pos[c].line], size_to_heading[Frame(c)])
                IN  /\ line_log' = [line_log EXCEPT ![c] =
                           Append(@, [dominant_size |-> r.dominant_size,
                                      heading_level |-> r.heading_level,
                                      span_texts |-> r.span_texts,
                                      raw_line |-> r.raw_line])]
                    /\ IF r.kind = "raise"
                       THEN /\ ret' = [ret EXCEPT ![c] = Raised("re.error")]
                            /\ pc' = [pc EXCEPT ![c] = "close"]
                            /\ UNCHANGED <<pos, md_lines>>
                       ELSE /\ md_lines' = [md_lines EXCEPT ![Frame(c)] =
                                   IF r.kind = "emit" THEN Append(@, r.entry) ELSE @]
                            /\ pos' = [pos EXCEPT ![c] = after]
                            /\ UNCHANGED <<pc, ret>>
    /\ UNCHANGED <<rvars, Document, extracted, scenario, ncalls, args, handle, sizes, size_to_heading, img,
                   opened, fs, outcomes>>

\* A handler that extracts every image block it meets.
ImageWantedAlways(include_images, xref) == TRUE

\* elif block_type == 1 and include_images (line 158) and the xref test of
\* lines 164-166: whether the image of the block is extracted.
ImageWanted(include_images, xref) == include_images /\ xref # 0

\* An image block that is passed over: include_images is false (line 158)
\* or the block carries no xref (lines 164-166).
ImageSkip(c) ==
    /\ AtBlock(c)
    /\ CurBlock(c).type = 1
    /\ ~ImageWanted(args[c].include_images, CurBlock(c).xref)
    /\ pos' = [pos EXCEPT ![c] = NextBlock(@)]
    /\ UNCHANGED <<rvars, Document, extracted, scenario, ncalls, pc, args, handle, sizes, size_to_heading,
                   md_lines, img, ret, line_log, opened, fs, outcomes>>

\* doc.extract_image(xref) and what follows without a directory, lines 167-173
\* and 181-187.
ImageExtract(c) ==
    /\ AtBlock(c)
    /\ CurBlock(c).type = 1
    /\ ImageWanted(args[c].include_images, CurBlock(c).xref)
    /\ extracted' = [extracted EXCEPT ![c] = Append(@, CurBlock(c).xref)]
    /\ LET ex == CurBlock(c).extract
       IN  IF ex.raises \/ ~ex.has_bytes
           THEN /\ pos' = [pos EXCEPT ![c] = NextBlock(@)]
                /\ UNCHANGED <<pc, img, md_lines>>
           ELSE IF args[c].images_dir # <<>>
           THEN /\ img' = [img EXCEPT ![c] =
                       [data |-> ex.image, ext |-> ex.ext,
                        path |-> PathJoin(args[c].images_dir,
                                          ImgName(pos[c].page - 1, CurBlock(c).xref, ex.ext))]]
                /\ pc' = [pc EXCEPT ![c] = "makedirs"]
                /\ UNCHANGED <<pos, md_lines>>
           ELSE /\ md_lines' = [md_lines EXCEPT ![Frame(c)] =
                       Append(@, ImageDataLine(ex.ext, ex.image))]
                /\ pos' = [pos EXCEPT ![c] = NextBlock(@)]
                /\ UNCHANGED <<pc, img>>
    /\ UNCHANGED <<rvars, Document, scenario, ncalls, args, handle, sizes, size_to_heading, ret,
                   line_log, opened, fs, outcomes>>

\* os.makedirs(images_dir, exist_ok=True), line 175; an OSError is swallowed
\* at line 186 and the image dropped.
ImageMakedirs(c) ==
    /\ pc[c] = "makedirs"
    /\ IF MakedirsFails(fs, args[c].images_dir)
       THEN /\ pc' = [pc EXCEPT ![c] = "pass2"]
            /\ pos' = [pos EXCEPT ![c] = NextBlock(@)]
            /\ img' = [img EXCEPT ![c] = NoImg]
            /\ fs' = fs
       ELSE /\ pc' = [pc EXCEPT ![c] = "write"]
            /\ fs' = Makedirs(fs, args[c].images_dir)
            /\ UNCHANGED <<pos, img>>
    /\ UNCHANGED <<rvars, Document, extracted, scenario, ncalls, args, handle, sizes, size_to_heading, md_lines,
                   ret, line_log, opened, outcomes>>

\* open(img_path, "wb"), f.write(img_data) and the link line, lines 176-180.
ImageWrite(c) ==
    /\ pc[c] = "write"
    /\ IF OpenWbFails(fs, img[c].path)
       THEN UNCHANGED <<fs, md_lines>>
       ELSE /\ fs' = WriteFile(fs, img[c].path, img[c].data)
            /\ md_lines' = [md_lines EXCEPT ![Frame(c)] = Append(@, ImageLinkLine(img[c].path))]
    /\ pc' = [pc EXCEPT ![c] = "pass2"]
    /\ pos' = [pos EXCEPT ![c] = NextBlock(@)]
    /\ img' = [img EXCEPT ![c] = NoImg]
    /\ UNCHANGED <<rvars, Document, extracted, scenario, ncalls, args, handle, sizes, size_to_heading, ret,
                   line_log, opened, outcomes>>

\* The end of a page, lines 189-190.
PageEnd(c) ==
    /\ InPage(c)
    /\ pos[c].block > Len(Pages(c)[pos[c].page])
    /\ md_lines' = [md_lines EXCEPT ![Frame(c)] =
           IF NotLastPage(pos[c].page - 1, Len(Pages(c))) THEN Append(@, PageBreak) ELSE @]
    /\ pos' = [pos EXCEPT ![c] = [page |-> @.page + 1, block |-> 1, line |-> 1]]
    /\ UNCHANGED <<rvars, Document, extracted, scenario, ncalls, pc, args, handle, sizes, size_to_heading, img,
                   ret, line_log, opened, fs, outcomes>>

\* return "\n".join(md_lines).strip(), line 192.
PdfReturn(c) ==
    /\ pc[c] = "pass2"
    /\ pos[c].page > Len(Pages(c))
    /\ ret' = [ret EXCEPT ![c] = Value(PdfResult(md_lines[Frame(c)]))]
    /\ pc' = [pc EXCEPT ![c] = "close"]
    /\ UNCHANGED <<rvars, Document, extracted, scenario, ncalls, args, handle, sizes, size_to_heading, md_lines,
                   pos, img, line_log, opened, fs, outcomes>>

\* A close that is reached by the return only, not by an error.
ClosesOnReturnOnly(status) == status # "error"

\* finally: the close is reached however the try block is left.
FinallyCloses(status) == TRUE

\* finally: doc.close(), lines 193-194; then the value or the error leaves the call.
PdfClose(c) ==
    /\ pc[c] = "close"
    /\ handle' = [handle EXCEPT ![c].closes =
           IF FinallyCloses(ret[c].status) THEN @ + 1 ELSE @]
    /\ pc' = [pc EXCEPT ![c] = IF ret[c].status = "error" THEN "raised" ELSE "done"]
    /\ UNCHANGED <<rvars, Document, extracted, scenario, ncalls, args, sizes, size_to_heading, md_lines, pos,
                   img, ret, line_log, extracted, opened, fs, outcomes>>

----------------------------------------------------------------------------
(* convert_docx_to_md, lines 197-222.                                      *)

\* A guard that never finds python-docx missing.
DocumentIsNoneSkipped(d) == FALSE

\* if Document is None, line 198
DocumentIsNone(d) == d = NoneVal

\* The guard of lines 198-199, then Document(docx_path), line 200, and
\* md_lines = [], line 201.
DocxOpen(c) ==
    /\ pc[c] = "docx_open"
    /\ IF DocumentIsNone(Document)
       THEN /\ pc' = [pc EXCEPT ![c] = "raised"]
            /\ ret' = [ret EXCEPT ![c] = Raised("ImportError")]
            /\ opened' = opened
       ELSE /\ opened' = [opened EXCEPT ![c] = @ \cup {"docx"}]
            /\ IF args[c].file.kind = "docx"
               THEN /\ pc' = [pc EXCEPT ![c] = "docx_paras"]
                    /\ ret' = ret
               ELSE /\ pc' = [pc EXCEPT ![c] = "raised"]
                    /\ ret' = [ret EXCEPT ![c] = Raised("open_error")]
    /\ UNCHANGED <<rvars, Document, extracted, scenario, ncalls, args, handle, sizes, size_to_heading, md_lines,
                   pos, img, line_log, fs, outcomes>>

\* One paragraph, lines 203-220; pos.page counts the paragraphs.
DocxPara(c) ==
    /\ pc[c] = "docx_paras"
    /\ pos[c].page <= Len(args[c].file.paras)
    /\ md_lines' = [md_lines EXCEPT ![Frame(c)] = Append(@, DocxEntry(args[c].file.paras[pos[c].page]))]
    /\ pos' = [pos EXCEPT ![c].page = @ + 1]
    /\ UNCHANGED <<rvars, Document, extracted, scenario, ncalls, pc, args, handle, sizes, size_to_heading, img,
                   ret, line_log, opened, fs, outcomes>>

\* The return of line 222.
DocxReturn(c) ==
    /\ pc[c] = "docx_paras"
    /\ pos[c].page > Len(args[c].file.paras)
    /\ ret' = [ret EXCEPT ![c] = Value(DocxResult(md_lines[Frame(c)]))]
    /\ pc' = [pc EXCEPT ![c] = "done"]
    /\ UNCHANGED <<rvars, Document, extracted, scenario, ncalls, args, handle, sizes, size_to_heading, md_lines,
                   pos, img, line_log, opened, fs, outcomes>>

----------------------------------------------------------------------------
\* The caller takes the result or the error; the call's locals are discarded.
Finish(c) ==
    /\ pc[c] \in {"done", "raised"}
    /\ outcomes' = Append(outcomes, [args |-> args[c], ret |-> ret[c]])
    /\ pc' = [pc EXCEPT ![c] = "idle"]
    /\ args' = [args EXCEPT ![c] = NoArgs]
    /\ handle' = [handle EXCEPT ![c] = NoHandle]
    /\ sizes' = [sizes EXCEPT ![Frame(c)] = EmptyDict]
    /\ size_to_heading' = [size_to_heading EXCEPT ![Frame(c)] = EmptyDict]
    /\ md_lines' = [md_lines EXCEPT ![Frame(c)] = <<>>]
    /\ pos' = [pos EXCEPT ![c] = StartPos]
    /\ img' = [img EXCEPT ![c] = NoImg]
    /\ ret' = [ret EXCEPT ![c] = NoRet]
    /\ line_log' = [line_log EXCEPT ![c] = <<>>]
    /\ extracted' = [extracted EXCEPT ![c] = <<>>]
    /\ opened' = [opened EXCEPT ![c] = {}]
    /\ UNCHANGED <<rvars, Document, scenario, ncalls, fs>>

Step(c) ==
    \/ ConvertDocument(c)
    \/ ConvertPdf(c)
    \/ ConvertDocx(c)
    \/ PdfOpen(c)
    \/ Pass1Page(c)
    \/ Classify(c)
    \/ TextLine(c)
    \/ ImageSkip(c)
    \/ ImageExtract(c)
    \/ ImageMakedirs(c)
    \/ ImageWrite(c)
    \/ PageEnd(c)
    \/ PdfReturn(c)
    \/ PdfClose(c)
    \/ DocxOpen(c)
    \/ DocxPara(c)
    \/ DocxReturn(c)
    \/ Finish(c)

Next == \E c \in Slots : Step(c)

Spec == Init /\ [][Next]_vars

----------------------------------------------------------------------------
(* Properties.  What the claims speak of, stated on the input document and *)
(* on the output entries rather than through the operators above.          *)

\* The lines of a document's text blocks, in reading order.
RECURSIVE BlockLines(_)
BlockLines(blocks) ==
    IF blocks = <<>> THEN <<>>
    ELSE (IF Head(blocks).type = 0 THEN Head(blocks).lines ELSE <<>>)
         \o BlockLines(Tail(blocks))

RECURSIVE DocLines(_)
DocLines(pages) ==
    IF pages = <<>> THEN <<>> ELSE BlockLines(Head(pages)) \o DocLines(Tail(pages))

\* The text of a line as the document carries it, before any formatting.
LineText(spans) == Concat([i \in 1..Len(spans) |-> spans[i].text])

NonBlankLines(pages) == SelectSeq(DocLines(pages), LAMBDA l : Strip(LineText(l)) # <<>>)

IsImageEntry(e) == StartsWith(e, ImageTag)

IsHeadingEntry(e) == StartsWith(e, <<"#">>)

IsListEntry(e) == StartsWith(e, <<"-", " ">>)

\* The output entries that stem from text lines.
TextEntries(entries) == SelectSeq(entries, LAMBDA e : e # PageBreak /\ ~IsImageEntry(e))

Ended(c) == pc[c] \in {"done", "raised"}

PdfCall(c) == args[c].file.kind = "pdf" /\ "fitz" \in opened[c]

(* C1: in convert_pdf_to_md, when the font-size histogram of the document  *)
(* has exactly one key, every text line is emitted, as plain text or as a  *)
(* "- " item, and no emitted entry carries a "#" prefix.                   *)
C1_OneSizeAllPlain ==
    \A c \in Slots :
        (Ended(c) /\ PdfCall(c) /\ Cardinality(DOMAIN sizes[c]) = 1)
        => /\ ret[c].status = "value"
           /\ Len(TextEntries(md_lines[c])) = Len(NonBlankLines(Pages(c)))
           /\ \A i \in 1..Len(md_lines[c]) : ~IsHeadingEntry(md_lines[c][i])

RECURSIVE HashPrefixLen(_)
HashPrefixLen(e) ==
    IF e # <<>> /\ Head(e) = "#" THEN 1 + HashPrefixLen(Tail(e)) ELSE 0

(* C2: whatever the number of distinct font sizes, convert_pdf_to_md uses  *)
(* no heading level beyond 1, 2 and 3, on the entries it emits and on the  *)
(* lines it ranks, and a line at a level has a strictly larger dominant    *)
(* size than any line at a deeper level.                                   *)
C2_HeadingLevels ==
    \A c \in Slots :
        PdfCall(c) =>
            /\ \A i \in 1..Len(md_lines[c]) : HashPrefixLen(md_lines[c][i]) <= 3
            /\ \A i \in 1..Len(line_log[c]) : line_log[c][i].heading_level \in 0..3
            /\ \A i, j \in 1..Len(line_log[c]) :
                  (/\ line_log[c][i].heading_level >= 1
                   /\ line_log[c][j].heading_level > line_log[c][i].heading_level)
                  => line_log[c][i].dominant_size > line_log[c][j].dominant_size

\* A finished conversion of a document with more than three sizes whose
\* lines were ranked at levels 1, 2 and 3 and at no level.
C2_Witness ==
    \E c \in Slots :
        /\ PdfCall(c) /\ pc[c] = "done"
        /\ Cardinality(DOMAIN sizes[c]) > 3
        /\ \A l \in 0..3 : \E i \in 1..Len(line_log[c]) : line_log[c][i].heading_level = l

\* The bullet glyphs the specification lists.
BulletGlyphs == {"U+2022", "U+2023", "U+25E6", "U+2043", "-", "*"}

\* A line whose text begins with a bullet glyph followed by whitespace.
IsBulletText(spans) ==
    LET t == Strip(LineText(spans))
    IN  Len(t) >= 2 /\ t[1] \in BulletGlyphs /\ t[2] \in Whitespace

BulletLines(pages) == SelectSeq(DocLines(pages), IsBulletText)

(* C3: every PDF text line that begins with one of the bullet glyphs       *)
(* followed by whitespace is emitted by convert_pdf_to_md as an entry that *)
(* begins with "- ", whatever the glyph, the font name and the font size.  *)
C3_BulletsEmitted ==
    \A c \in Slots :
        (Ended(c) /\ PdfCall(c) /\ BulletLines(Pages(c)) # <<>>)
        => /\ ret[c].status = "value"
           /\ Len(SelectSeq(md_lines[c], IsListEntry)) >= Len(BulletLines(Pages(c)))

PageBreakEntries(entries) == SelectSeq(entries, LAMBDA e : e = PageBreak)

Returned(c) == pc[c] = "done" /\ ret[c].status = "value"

(* C4 as claimed: the string convert_pdf_to_md returns for an N-page PDF   *)
(* (N >= 1) contains exactly N-1 occurrences of the page-break marker      *)
(* "\n---\n", wherever the empty pages are.                                *)
C4_MarkerOccurrences ==
    \A c \in Slots :
        (Returned(c) /\ PdfCall(c) /\ Len(Pages(c)) >= 1)
        => CountOcc(ret[c].value, PageBreak) = Len(Pages(c)) - 1

(* C4 as amended: when convert_pdf_to_md returns for an N-page PDF         *)
(* (N >= 1), the output entries it joined hold exactly N-1 page-break      *)
(* markers, one appended after every page but the last.                    *)
C4_MarkerEntries ==
    \A c \in Slots :
        (Returned(c) /\ PdfCall(c) /\ Len(Pages(c)) >= 1)
        => Len(PageBreakEntries(md_lines[c])) = Len(Pages(c)) - 1

\* A returned three-page conversion whose first and last pages are empty
\* and whose middle page yielded an image entry.
C4_Witness ==
    \E c \in Slots :
        /\ Returned(c) /\ PdfCall(c)
        /\ Len(Pages(c)) = 3
        /\ Pages(c)[1] = <<>> /\ Pages(c)[3] = <<>>
        /\ \E i \in 1..Len(md_lines[c]) : IsImageEntry(md_lines[c][i])
        /\ CountOcc(ret[c].value, PageBreak) < 2

RECURSIVE AllBlocks(_)
AllBlocks(pages) == IF pages = <<>> THEN <<>> ELSE Head(pages) \o AllBlocks(Tail(pages))

\* An image block whose extraction fails: no resource id, extract_image
\* raises, or it yields no byte payload.
IsFailingImage(b) ==
    b.type = 1 /\ (b.xref = 0 \/ b.extract.raises \/ ~b.extract.has_bytes)

IsGoodImage(b) == b.type = 1 /\ ~IsFailingImage(b)

(* C5: when the extraction of an image block fails, convert_pdf_to_md      *)
(* raises no error, emits no entry for that image and still emits the      *)
(* lines of every other block of the document.                             *)
C5_ImageFailureIsolated ==
    \A c \in Slots :
        (/\ Ended(c) /\ PdfCall(c) /\ args[c].include_images
         /\ SelectSeq(AllBlocks(Pages(c)), IsFailingImage) # <<>>)
        => /\ ret[c].status = "value"
           /\ Len(TextEntries(md_lines[c])) = Len(NonBlankLines(Pages(c)))
           /\ Len(SelectSeq(md_lines[c], IsImageEntry))
                 <= Len(SelectSeq(AllBlocks(Pages(c)), IsGoodImage))

\* The path ends, in any letter case, with the extension ext, and the file
\* name has something before it.
EndsWithExt(path, ext) ==
    LET n == Len(path)
        k == Len(ext)
    IN  n > k /\ Lower(SubSeq(path, n - k + 1, n)) = ext /\ path[n - k] # "/"

DocxPcs == {"docx_open", "docx_paras"}

PdfPcs == {"pdf_open", "pass1", "pass2", "makedirs", "write", "close"}

(* C6: convert_document_to_md selects the pipeline by the lower-cased file *)
(* extension: ".pdf" in any letter case runs only the PDF pipeline,        *)
(* ".docx" in any letter case only the DOCX pipeline, and any other path   *)
(* raises the unsupported-file-type error with no file opened, no pipeline *)
(* run and no output.                                                      *)
C6_Dispatch ==
    \A c \in Slots :
        args[c].entry = "document" =>
            /\ EndsWithExt(args[c].path, PdfExt)
                  => /\ pc[c] \in PdfPcs \cup {"done", "raised"}
                     /\ opened[c] \subseteq {"fitz"}
                     /\ Ended(c) => opened[c] = {"fitz"}
                     /\ ret[c].error # "ValueError"
            /\ EndsWithExt(args[c].path, DocxExt)
                  => /\ pc[c] \in DocxPcs \cup {"done", "raised"}
                     /\ opened[c] \subseteq {"docx"}
                     /\ Ended(c) => \/ opened[c] = {"docx"}
                                    \/ Document = NoneVal /\ ret[c] = Raised("ImportError")
                     /\ ret[c].error # "ValueError"
            /\ (~EndsWithExt(args[c].path, PdfExt) /\ ~EndsWithExt(args[c].path, DocxExt))
                  => /\ pc[c] = "raised"
                     /\ ret[c] = Raised("ValueError")
                     /\ opened[c] = {}
                     /\ handle[c] = NoHandle
                     /\ md_lines[c] = <<>>
                     /\ scenario \in {"single", "nodocx"} => fs = EmptyFs

\* convert_document_to_md was called on "r.txt" and the error has left it.
C6_Witness ==
    \E c \in Slots :
        /\ args[c].entry = "document"
        /\ args[c].path = <<"r", ".", "t", "x", "t">>
        /\ args[c].file.kind = "pdf"
        /\ pc[c] = "raised" /\ ret[c].error = "ValueError"

DocxCall(c) == args[c].file.kind = "docx" /\ "docx" \in opened[c]

RECURSIVE TakeDigits(_)
TakeDigits(s) ==
    IF s # <<>> /\ IsDigit(Head(s)) THEN <<Head(s)>> \o TakeDigits(Tail(s)) ELSE <<>>

\* The first maximal run of digits of s, empty when s has no digit.
RECURSIVE FirstDigitRun(_)
FirstDigitRun(s) ==
    IF s = <<>> THEN <<>>
    ELSE IF IsDigit(Head(s)) THEN TakeDigits(s)
    ELSE FirstDigitRun(Tail(s))

\* The level the specification gives a heading style: the value of the
\* first digit sequence of its name, 1 without one, clamped to 1..6.
FirstDigitsLevel(style_name) ==
    LET run == FirstDigitRun(style_name)
        v == IF run = <<>> THEN 1 ELSE ParseInt(run)
    IN  IF v < 1 THEN 1 ELSE IF v > 6 THEN 6 ELSE v

IsHeadingStyle(para) ==
    para.has_style /\ StartsWith(Lower(para.style_name), <<"h","e","a","d","i","n","g">>)

(* C7: in convert_docx_to_md a non-empty paragraph whose style name starts *)
(* with "heading" in any letter case is emitted as level "#" characters, a *)
(* space and the trimmed text, the level being the value of the first      *)
(* digit sequence of the style name (1 if none), clamped to 1..6.          *)
C7_DocxHeadingLevel ==
    \A c \in Slots :
        DocxCall(c) =>
            \A i \in 1..Len(md_lines[c]) :
                LET para == args[c].file.paras[i]
                    text == Strip(para.text)
                IN  (text # <<>> /\ IsHeadingStyle(para))
                    => md_lines[c][i] =
                          Hashes(FirstDigitsLevel(para.style_name)) \o <<" ">> \o text

HasListStyle(para) ==
    /\ para.has_style
    /\ \E i \in 1..(Len(para.style_name) - 3) :
          Lower(SubSeq(para.style_name, i, i + 3)) = <<"l","i","s","t">>

(* C8: in convert_docx_to_md a non-empty paragraph whose style name does   *)
(* not start with "heading" but contains "list" is emitted as "- " and the *)
(* trimmed text; one whose style is neither, or that has no style, is      *)
(* emitted as its trimmed text; the heading test comes before the list     *)
(* test.                                                                   *)
C8_DocxListAndPlain ==
    \A c \in Slots :
        DocxCall(c) =>
            \A i \in 1..Len(md_lines[c]) :
                LET para == args[c].file.paras[i]
                    text == Strip(para.text)
                    entry == md_lines[c][i]
                IN  text # <<>> =>
                        /\ (~IsHeadingStyle(para) /\ HasListStyle(para))
                              => entry = <<"-", " ">> \o text
                        /\ (~IsHeadingStyle(para) /\ ~HasListStyle(para)) => entry = text
                        /\ IsHeadingStyle(para) => IsHeadingEntry(entry)

\* A returned DOCX conversion of a "List Bullet" paragraph followed by a
\* "Heading List" paragraph, both with text.
C8_Witness ==
    \E c \in Slots :
        /\ DocxCall(c) /\ Returned(c)
        /\ Len(md_lines[c]) = 2
        /\ args[c].file.paras[1].style_name = <<"L","i","s","t"," ","B","u","l","l","e","t">>
        /\ md_lines[c][1] = <<"-", " ", "a">>
        /\ args[c].file.paras[2].style_name = <<"H","e","a","d","i","n","g"," ","L","i","s","t">>
        /\ md_lines[c][2] = <<"#", " ", "a">>

(* C9: two runs of the converter on the same input document with the same  *)
(* images_dir and include_images end the same way, with identical output   *)
(* strings, whatever calls ran before them, between them or beside them.   *)
C9_Deterministic ==
    /\ \A i, j \in 1..Len(outcomes) :
          outcomes[i].args = outcomes[j].args => outcomes[i].ret = outcomes[j].ret
    /\ \A c \in Slots : \A i \in 1..Len(outcomes) :
          (Ended(c) /\ outcomes[i].args = args[c]) => outcomes[i].ret = ret[c]
    /\ \A c, d \in Slots :
          (Ended(c) /\ Ended(d) /\ args[c] = args[d]) => ret[c] = ret[d]

\* Three calls through the dispatcher have ended: the first and the third
\* on the same document into DirOne, each returning an image link, and
\* between them a call whose images_dir is the path of that image file.
C9_Witness ==
    /\ Len(outcomes) = 3
    /\ outcomes[1].args = outcomes[3].args
    /\ outcomes[1].args.entry = "document"
    /\ outcomes[1].args.images_dir = DirOne
    /\ outcomes[2].args.images_dir = DirClash
    /\ outcomes[1].ret.status = "value"
    /\ Contains(outcomes[3].ret.value, ImageTag \o DirOne)

(* A call of convert_pdf_to_md run alone, from the empty filesystem: the   *)
(* same passes, folded over the document in one go.  The state of the fold *)
(* is the entries so far, the filesystem and whether re.error was raised.  *)
SoloStart == [md |-> <<>>, fs |-> EmptyFs, raised |-> FALSE]

RECURSIVE SoloLines(_, _, _)
SoloLines(lines, map, st) ==
    IF lines = <<>> \/ st.raised THEN st
    ELSE LET r == ProcessLine(Head(lines), map)
         IN  IF r.kind = "raise" THEN [st EXCEPT !.raised = TRUE]
             ELSE SoloLines(Tail(lines), map,
                            IF r.kind = "emit" THEN [st EXCEPT !.md = Append(@, r.entry)]
                            ELSE st)

SoloImage(b, page_number, a, st) ==
    LET ex == b.extract
        path == PathJoin(a.images_dir, ImgName(page_number, b.xref, ex.ext))
    IN  IF ~a.include_images \/ b.xref = 0 \/ ex.raises \/ ~ex.has_bytes THEN st
        ELSE IF a.images_dir = <<>>
             THEN [st EXCEPT !.md = Append(@, ImageDataLine(ex.ext, ex.image))]
        ELSE IF MakedirsFails(st.fs, a.images_dir) THEN st
        ELSE IF OpenWbFails(Makedirs(st.fs, a.images_dir), path)
             THEN [st EXCEPT !.fs = Makedirs(@, a.images_dir)]
        ELSE [st EXCEPT !.fs = WriteFile(Makedirs(@, a.images_dir), path, ex.image),
                        !.md = Append(@, ImageLinkLine(path))]

RECURSIVE SoloBlocks(_, _, _, _, _)
SoloBlocks(blocks, page_number, a, map, st) ==
    IF blocks = <<>> \/ st.raised THEN st
    ELSE SoloBlocks(Tail(blocks), page_number, a, map,
                    IF Head(blocks).type = 0 THEN SoloLines(Head(blocks).lines, map, st)
                    ELSE SoloImage(Head(blocks), page_number, a, st))

RECURSIVE SoloPages(_, _, _, _)
SoloPages(page_number, a, map, st) ==
    LET pages == a.file.pages
    IN  IF page_number >= Len(pages) \/ st.raised THEN st
        ELSE LET after == SoloBlocks(pages[page_number + 1], page_number, a, map, st)
             IN  SoloPages(page_number + 1, a, map,
                           IF ~after.raised /\ NotLastPage(page_number, Len(pages))
                           THEN [after EXCEPT !.md = Append(@, PageBreak)]
                           ELSE after)

SoloRet(a) ==
    IF a.file.kind # "pdf" THEN Raised("open_error")
    ELSE LET h == CountSpans(EmptyDict, PageSpans(AllBlocks(a.file.pages)))
             st == SoloPages(0, a, SizeToHeading(h), SoloStart)
         IN  IF st.raised THEN Raised("re.error") ELSE Value(PdfResult(st.md))

\* The arguments of the calls that run beside the call in slot c or have ended.
Peers(c) ==
    {args[d] : d \in {e \in Slots \ {c} : pc[e] # "idle"}}
        \cup {outcomes[i].args : i \in 1..Len(outcomes)}

DistinctDirs(a, b) ==
    a.images_dir = NoDir \/ b.images_dir = NoDir \/ a.images_dir # b.images_dir

\* Directory p lies inside directory q, or is q spelt with a trailing
\* separator.
Inside(p, q) == StartsWith(p, DirOf(q) \o <<"/">>)

SeparateDirs(a, b) ==
    \/ a.images_dir = NoDir
    \/ b.images_dir = NoDir
    \/ /\ a.images_dir # b.images_dir
       /\ ~Inside(a.images_dir, b.images_dir)
       /\ ~Inside(b.images_dir, a.images_dir)

(* C10 as claimed: of two overlapping convert_pdf_to_md calls on different *)
(* documents, with distinct images_dir values or none, each ends exactly   *)
(* as it ends when run alone.                                              *)
C10_IndependentDistinctDirs ==
    \A c \in Slots :
        (/\ scenario = "concurrent" /\ Ended(c)
         /\ \A b \in Peers(c) : b.file # args[c].file /\ DistinctDirs(args[c], b))
        => ret[c] = SoloRet(args[c])

(* C10 as amended: of two overlapping convert_pdf_to_md calls on different *)
(* documents, with no images_dir or with distinct images_dir values        *)
(* neither of which lies inside the other, each ends exactly as it ends    *)
(* when run alone.                                                         *)
C10_IndependentSeparateDirs ==
    \A c \in Slots :
        (/\ scenario = "concurrent" /\ Ended(c)
         /\ \A b \in Peers(c) : b.file # args[c].file /\ SeparateDirs(args[c], b))
        => ret[c] = SoloRet(args[c])

\* Two calls on different documents, one writing into DirOne and one into
\* DirTwo, have both returned image links and stand side by side.
C10_Witness ==
    /\ scenario = "concurrent"
    /\ Returned(1) /\ Returned(2)
    /\ args[1].file # args[2].file
    /\ args[1].images_dir = DirOne /\ args[2].images_dir = DirTwo
    /\ Contains(ret[1].value, ImageTag \o DirOne)
    /\ Contains(ret[2].value, ImageTag \o DirTwo)
    /\ Cardinality(DOMAIN fs.files) = 2

----------------------------------------------------------------------------

(* C11: convert_pdf_to_md returns the empty string for a PDF with zero     *)
(* pages, and no string it returns begins or ends with a whitespace        *)
(* character.                                                              *)
C11_TrimmedResult ==
    \A c \in Slots :
        (Returned(c) /\ PdfCall(c))
        => /\ Pages(c) = <<>> => ret[c].value = <<>>
           /\ ret[c].value # <<>> =>
                 /\ ret[c].value[1] \notin Whitespace
                 /\ ret[c].value[Len(ret[c].value)] \notin Whitespace

\* A returned conversion whose joined entries begin and end with a newline
\* (a page break first and last) and whose result is what the trim left.
C11_Witness ==
    \E c \in Slots :
        /\ Returned(c) /\ PdfCall(c)
        /\ Len(md_lines[c]) >= 2
        /\ md_lines[c][1] = PageBreak /\ md_lines[c][Len(md_lines[c])] = PageBreak
        /\ ret[c].value # <<>>
        /\ Len(ret[c].value) = Len(Join(<<"\n">>, md_lines[c])) - 2

\* A zero-page PDF has been converted to the empty string.
C11_ZeroPagesReached ==
    \E c \in Slots : Returned(c) /\ PdfCall(c) /\ Pages(c) = <<>> /\ ret[c].value = <<>>

----------------------------------------------------------------------------

(* C12: when the decoder cannot open the input file, convert_pdf_to_md     *)
(* ends with the decoder's error and nothing else has happened: no string  *)
(* is returned, no entry has been appended, no page has been read in       *)
(* either pass, no document handle exists and the filesystem is untouched. *)
C12_OpenErrorPropagates ==
    \A c \in Slots :
        ("fitz" \in opened[c] /\ args[c].file.kind \notin {"pdf", "damaged"})
        => /\ pc[c] = "raised"
           /\ ret[c] = Raised("open_error")
           /\ md_lines[c] = <<>>
           /\ sizes[c] = EmptyDict /\ size_to_heading[c] = EmptyDict
           /\ line_log[c] = <<>>
           /\ pos[c] = StartPos
           /\ handle[c] = NoHandle
           /\ fs = EmptyFs

\* convert_pdf_to_md was given a corrupt file, with an images_dir and
\* include_images true, and fitz.open has raised.
C12_Witness ==
    \E c \in Slots :
        /\ args[c].entry = "pdf"
        /\ args[c].file = CorruptFile
        /\ args[c].images_dir = DirOne /\ args[c].include_images
        /\ "fitz" \in opened[c]
        /\ pc[c] = "raised"

----------------------------------------------------------------------------

(* C13: once fitz.open has succeeded, convert_pdf_to_md ends by returning  *)
(* a string; no error from a text line or an image block reaches the       *)
(* caller, whatever the document holds.                                    *)
C13_AlwaysReturns ==
    \A c \in Slots :
        (PdfCall(c) /\ Ended(c)) => /\ pc[c] = "done"
                                    /\ ret[c].status = "value"

----------------------------------------------------------------------------

\* The call in slot c is a DOCX conversion: convert_docx_to_md itself, or
\* convert_document_to_md on a path whose suffix selects it.
DocxSelected(c) ==
    \/ args[c].entry = "docx"
    \/ args[c].entry = "document" /\ Pipeline(args[c].path) = "docx"

(* C14: while Document is None, a DOCX conversion that has passed its      *)
(* first statement has failed with ImportError, whatever the file is: the  *)
(* file was never handed to the DOCX reader, no paragraph was read and no  *)
(* other error has been raised in its place.                               *)
C14_MissingDocxLibrary ==
    \A c \in Slots :
        (Document = NoneVal /\ DocxSelected(c) /\ pc[c] # "docx_open")
        => /\ pc[c] = "raised"
           /\ ret[c] = Raised("ImportError")
           /\ "docx" \notin opened[c]
           /\ md_lines[c] = <<>>
           /\ pos[c] = StartPos

\* Without python-docx, convert_document_to_md on a '.DocX' path naming a
\* file that no reader could open has failed with ImportError.
C14_Witness ==
    \E c \in Slots :
        /\ Document = NoneVal
        /\ args[c].entry = "document"
        /\ args[c].path = <<"r",".","D","o","c","X">>
        /\ args[c].file = CorruptFile
        /\ pc[c] = "raised"
        /\ ret[c] = Raised("ImportError")

----------------------------------------------------------------------------

\* Where a call stands once the second pass has begun.
Pass2Pcs == {"pass2", "makedirs", "write", "close", "done", "raised"}

\* The blocks the second pass of the call in slot c has dealt with so far.
VisitedBlocks(c) ==
    LET pages == Pages(c)
        p == pos[c].page
    IN  AllBlocks(SubSeq(pages, 1, p - 1))
            \o (IF p <= Len(pages) THEN SubSeq(pages[p], 1, pos[c].block - 1) ELSE <<>>)

\* The image blocks that carry a resource id.
HasXref(b) == b.type = 1 /\ b.xref # 0

(* C15: in convert_pdf_to_md an image block is passed over without effect  *)
(* when include_images is false or the block has no xref.  Extraction is   *)
(* attempted only for the blocks with an xref of a call with              *)
(* include_images true, and only they account for image entries and for    *)
(* files; with include_images false nothing is extracted, no image entry   *)
(* is emitted and the filesystem stays as it was.                          *)
C15_ImageNoOp ==
    \A c \in Slots :
        (PdfCall(c) /\ pc[c] \in Pass2Pcs)
        => LET wanted == IF args[c].include_images
                         THEN SelectSeq(VisitedBlocks(c), HasXref) ELSE <<>>
               in_hand == IF pc[c] \in {"makedirs", "write"} THEN 1 ELSE 0
               entries == SelectSeq(md_lines[c], IsImageEntry)
           IN  /\ \A i \in 1..Len(extracted[c]) : extracted[c][i] # 0
               /\ Len(extracted[c]) = Len(wanted) + in_hand
               /\ Len(entries) <= Len(wanted)
               /\ ncalls = 1 => Cardinality(DOMAIN fs.files) <= Len(wanted)
               /\ (ncalls = 1 /\ extracted[c] = <<>>) => fs = EmptyFs
               /\ ~args[c].include_images
                     => extracted[c] = <<>> /\ entries = <<>>

\* A call with include_images false and an images_dir has returned for a
\* document that holds an extractable image and an image without xref.
C15_Witness ==
    \E c \in Slots :
        /\ Returned(c) /\ PdfCall(c)
        /\ ~args[c].include_images /\ args[c].images_dir = DirOne
        /\ \E i, j \in 1..Len(AllBlocks(Pages(c))) :
              /\ AllBlocks(Pages(c))[i] = ImgOk
              /\ AllBlocks(Pages(c))[j] = ImgNoXref
        /\ extracted[c] = <<>> /\ md_lines[c] = <<>> /\ fs = EmptyFs

----------------------------------------------------------------------------

\* Page number (from 1) and index of every block the second pass of the call
\* in slot c has dealt with so far.
VisitedAt(c) ==
    {pk \in UNION {{<<p, k>> : k \in 1..Len(Pages(c)[p])} : p \in 1..Len(Pages(c))} :
        pk[1] < pos[c].page \/ (pk[1] = pos[c].page /\ pk[2] < pos[c].block)}

\* The visited image blocks whose extraction succeeded.
ExtractedAt(c) ==
    IF args[c].include_images
    THEN {pk \in VisitedAt(c) : IsGoodImage(Pages(c)[pk[1]][pk[2]])}
    ELSE {}

\* images_dir/page<N>_img<R>.<ext> for the block at pk.
ImageFileOf(c, pk) ==
    LET b == Pages(c)[pk[1]][pk[2]]
        dir == args[c].images_dir
    IN  dir \o (IF dir # <<>> /\ dir[Len(dir)] = "/" THEN <<>> ELSE <<"/">>)
            \o <<"p","a","g","e">> \o Str(pk[1])
            \o <<"_","i","m","g">> \o Str(b.xref) \o <<".">> \o b.extract.ext

\* ![image](data:image/<ext>;base64,<payload>) for the block at pk.
DataUriOf(c, pk) ==
    LET b == Pages(c)[pk[1]][pk[2]]
    IN  <<"!","[","i","m","a","g","e","]","(","d","a","t","a",":","i","m","a","g","e","/">>
            \o b.extract.ext \o <<";","b","a","s","e","6","4",",">>
            \o B64Encode(b.extract.image) \o <<")">>

LinkOf(path) == <<"!","[","i","m","a","g","e","]","(">> \o path \o <<")">>

Occurrences(entries, e) == Cardinality({i \in 1..Len(entries) : entries[i] = e})

\* The directory cannot be created (it or a parent is a regular file) or
\* the path of the image file is a directory.
WriteBlocked(dir, path) ==
    \/ path \in fs.dirs
    \/ \E p \in Ancestors(dir) \cup {dir} : p \in DOMAIN fs.files

\* Without images_dir: one data-URI entry per extracted image, nothing written.
InlineImages(c) ==
    /\ \A pk \in ExtractedAt(c) :
          Occurrences(md_lines[c], DataUriOf(c, pk))
              = Cardinality({q \in ExtractedAt(c) : DataUriOf(c, q) = DataUriOf(c, pk)})
    /\ Len(SelectSeq(md_lines[c], IsImageEntry)) = Cardinality(ExtractedAt(c))
    /\ ncalls = 1 => fs = EmptyFs

\* Another call, running or finished, has linked the path: it wrote there.
WrittenByPeer(c, path) ==
    \/ \E d \in Slots \ {c} : \E i \in 1..Len(md_lines[d]) : md_lines[d][i] = LinkOf(path)
    \/ \E i \in 1..Len(outcomes) :
          /\ outcomes[i].ret.status = "value"
          /\ Contains(outcomes[i].ret.value, LinkOf(path))

\* With images_dir: the file of the block at pk holds its bytes, unless
\* another call has written the same path, and the entries hold one link
\* to it per extraction.
ImageSaved(c, pk) ==
    LET path == ImageFileOf(c, pk)
    IN  /\ path \in DOMAIN fs.files
        /\ fs.files[path] = Pages(c)[pk[1]][pk[2]].extract.image \/ WrittenByPeer(c, path)
        /\ Occurrences(md_lines[c], LinkOf(path))
              = Cardinality({q \in ExtractedAt(c) : ImageFileOf(c, q) = path})

(* C16 as claimed: for every image extracted with resource id R on page N, *)
(* with images_dir the file images_dir/page<N>_img<R>.<ext> holds the      *)
(* bytes and exactly one link entry per extraction refers to it; without   *)
(* images_dir exactly one base64 data-URI entry per extraction is emitted  *)
(* and nothing is written.                                                 *)
C16_ImageEmitted ==
    \A c \in Slots :
        (PdfCall(c) /\ pc[c] \in Pass2Pcs)
        => IF args[c].images_dir = NoDir THEN InlineImages(c)
           ELSE /\ \A pk \in ExtractedAt(c) : ImageSaved(c, pk)
                /\ Len(SelectSeq(md_lines[c], IsImageEntry)) = Cardinality(ExtractedAt(c))

(* C16 as amended: the same, for the images whose directory could be       *)
(* created and whose file could be opened for writing; an image for which  *)
(* os.makedirs or open fails leaves no entry.                              *)
C16_ImageEmittedUnlessBlocked ==
    \A c \in Slots :
        (PdfCall(c) /\ pc[c] \in Pass2Pcs)
        => IF args[c].images_dir = NoDir THEN InlineImages(c)
           ELSE LET saved == {pk \in ExtractedAt(c) :
                                ~WriteBlocked(args[c].images_dir, ImageFileOf(c, pk))}
                IN  /\ \A pk \in saved : ImageSaved(c, pk)
                    /\ \A pk \in ExtractedAt(c) \ saved :
                          Occurrences(md_lines[c], LinkOf(ImageFileOf(c, pk))) = 0
                    /\ Len(SelectSeq(md_lines[c], IsImageEntry)) = Cardinality(saved)

\* Two calls stand side by side: one has saved the image of its second page
\* as d1/page2_img5.png and linked it, the other has emitted its image
\* inline.
C16_Witness ==
    /\ PdfCall(1) /\ PdfCall(2)
    /\ args[1].images_dir = DirOne /\ args[2].images_dir = NoDir
    /\ LET file == <<"d","1","/","p","a","g","e","2","_","i","m","g","5",".","p","n","g">>
       IN  /\ file \in DOMAIN fs.files
           /\ fs.files[file] = <<137, 80>>
           /\ md_lines[1] = <<PageBreak, LinkOf(file)>>
    /\ md_lines[2] =
          << <<"!","[","i","m","a","g","e","]","(","d","a","t","a",":","i","m","a","g","e","/",
               "p","n","g",";","b","a","s","e","6","4",",","i","V","A","=",")">> >>

----------------------------------------------------------------------------

\* A line whose bullet glyph stands in a run of plain font, so that the
\* formatted line begins with the glyph as well.
IsPlainBullet(spans) == IsBulletText(spans) /\ spans[1].font = FontPlain

\* The largest rounded size among the runs of the line that carry text.
TextSizes(spans) == {Round2(spans[i].size) : i \in {j \in 1..Len(spans) : spans[j].text # <<>>}}

\* The line's largest text size has a heading level in the call of slot c.
IsHeadingSized(c, spans) ==
    \E sz \in TextSizes(spans) :
        /\ \A other \in TextSizes(spans) : other <= sz
        /\ sz \in DOMAIN size_to_heading[c]

HeadingBullets(c) ==
    SelectSeq(DocLines(Pages(c)), LAMBDA l : IsPlainBullet(l) /\ IsHeadingSized(c, l))

\* What follows the "#" marks and the blank of a heading entry.
HeadingBody(e) == SubSeq(e, HashPrefixLen(e) + 2, Len(e))

(* C17: a PDF line that begins with a bullet glyph and whitespace and      *)
(* whose dominant size has a heading level is emitted by convert_pdf_to_md *)
(* as a "- " entry; no heading entry carries a bullet line.                *)
C17_BulletBeforeHeading ==
    \A c \in Slots :
        (PdfCall(c) /\ Ended(c) /\ HeadingBullets(c) # <<>>)
        => /\ Len(SelectSeq(md_lines[c], IsListEntry)) >= Len(HeadingBullets(c))
           /\ \A i \in 1..Len(md_lines[c]) :
                 IsHeadingEntry(md_lines[c][i])
                 => LET body == HeadingBody(md_lines[c][i])
                    IN  ~(Len(body) >= 2 /\ body[1] \in BulletGlyphs /\ body[2] \in Whitespace)

----------------------------------------------------------------------------

\* The non-blank lines whose text does not begin with a bullet glyph and
\* whitespace.
OtherLines(pages) == SelectSeq(NonBlankLines(pages), LAMBDA l : ~IsBulletText(l))

\* The entries emitted as plain text or as headings.
ProseEntries(entries) == SelectSeq(TextEntries(entries), LAMBDA e : ~IsListEntry(e))

(* C18: convert_pdf_to_md emits as "- " items only lines whose own text,   *)
(* trimmed, begins with one of the glyphs U+2022, U+2023, U+25E6, U+2043,  *)
(* "-" and "*" followed by whitespace; every other non-blank line, such as *)
(* one that begins with the letter o and a blank or one whose leading "*"  *)
(* is an emphasis marker, is emitted as a heading or as plain text.        *)
C18_BulletGlyphSet ==
    \A c \in Slots :
        (PdfCall(c) /\ Ended(c))
        => /\ Len(SelectSeq(md_lines[c], IsListEntry)) <= Len(BulletLines(Pages(c)))
           /\ OtherLines(Pages(c)) # <<>>
                 => /\ ret[c].status = "value"
                    /\ Len(ProseEntries(md_lines[c])) >= Len(OtherLines(Pages(c)))

----------------------------------------------------------------------------

\* The rounded sizes of all runs of the document's text blocks, in order.
RunSizes(pages) ==
    LET runs == Concat(DocLines(pages))
    IN  [i \in 1..Len(runs) |-> Round2(runs[i].size)]

SizesOf(rs) == {rs[i] : i \in 1..Len(rs)}

\* The level of a size among the sizes S: its rank from the largest, if
\* that is at most 3, else none (0).
LevelIn(S, sz) ==
    LET rank == 1 + Cardinality({k \in S : k > sz})
    IN  IF sz \in S /\ rank <= 3 THEN rank ELSE 0

\* The histogram h counts the sizes rs, and the map m ranks them.
CountsAndRanks(h, m, rs) ==
    LET S == SizesOf(rs)
    IN  /\ DOMAIN h = S
        /\ \A k \in S : h[k] = Cardinality({i \in 1..Len(rs) : rs[i] = k})
        /\ DOMAIN m = {k \in S : LevelIn(S, k) # 0}
        /\ \A k \in DOMAIN m : m[k] = LevelIn(S, k)

(* C19: in convert_pdf_to_md nothing is appended and no line is ranked     *)
(* before the second pass, and throughout the second pass the histogram    *)
(* counts every run of every page and the heading map ranks the sizes of   *)
(* the whole document; every line is ranked by that map.                   *)
C19_TwoPass ==
    \A c \in Slots :
        PdfCall(c) =>
            /\ pc[c] \in {"pdf_open", "pass1"} => md_lines[c] = <<>> /\ line_log[c] = <<>>
            /\ pc[c] \in Pass2Pcs =>
                  /\ CountsAndRanks(sizes[c], size_to_heading[c], RunSizes(Pages(c)))
                  /\ \A i \in 1..Len(line_log[c]) :
                        line_log[c][i].heading_level
                            = LevelIn(DOMAIN sizes[c], line_log[c][i].dominant_size)

\* The only line of page 1 has the largest size of its page, 14 pt, and is
\* ranked at level 3 because page 2 holds runs of 18 pt and 16 pt; the
\* second pass has not yet left page 1.
C19_Witness ==
    \E c \in Slots :
        /\ PdfCall(c) /\ pc[c] = "pass2" /\ pos[c].page = 1
        /\ Pages(c) = << <<BlkBlank14>>, <<BlkBlank18and16>> >>
        /\ Len(line_log[c]) = 1
        /\ line_log[c][1].dominant_size = 1400 /\ line_log[c][1].heading_level = 3

----------------------------------------------------------------------------

\* The line has a run whose text is not empty.
HasText(spans) == \E i \in 1..Len(spans) : spans[i].text # <<>>

----------------------------------------------------------------------------

(* C21: the heading map of convert_pdf_to_md depends on the set of sizes   *)
(* of the histogram alone: the k-th largest size has level k for k = 1, 2, *)
(* 3, the map has min(3, number of sizes) entries, and a line whose        *)
(* dominant size is any other value is ranked at level 0; the occurrence   *)
(* counts play no part.                                                    *)
C21_MagnitudeOnly ==
    \A c \in Slots :
        (PdfCall(c) /\ pc[c] \in Pass2Pcs)
        => LET S == DOMAIN sizes[c]
               m == size_to_heading[c]
           IN  /\ DOMAIN m \subseteq S
               /\ Cardinality(DOMAIN m) = (IF Cardinality(S) < 3 THEN Cardinality(S) ELSE 3)
               /\ \A k \in DOMAIN m : m[k] = 1 + Cardinality({j \in S : j > k})
               /\ \A i \in 1..Len(line_log[c]) :
                     LET d == line_log[c][i].dominant_size
                     IN  line_log[c][i].heading_level = (IF d \in DOMAIN m THEN m[d] ELSE 0)

\* The smaller size occurs twice and the larger once, and the larger is
\* level 1; a line of the smaller size has been ranked at level 2.
C21_Witness ==
    \E c \in Slots :
        /\ PdfCall(c) /\ pc[c] = "pass2"
        /\ sizes[c] = (1200 :> 2 @@ 1400 :> 1)
        /\ size_to_heading[c] = (1400 :> 1 @@ 1200 :> 2)
        /\ \E i \in 1..Len(line_log[c]) :
              line_log[c][i].dominant_size = 1200 /\ line_log[c][i].heading_level = 2

----------------------------------------------------------------------------

\* The font name holds the word, in whatever case its letters are.
Mentions(font, word) ==
    \E k \in 0..(Len(font) - Len(word)) :
        \A i \in 1..Len(word) : LowerChar(font[k + i]) = word[i]

\* The number of asterisks the claim puts on each side of a run.
EmphasisStars(font) ==
    (IF Mentions(font, <<"b","o","l","d">>) \/ Mentions(font, <<"b","l","a","c","k">>)
     THEN 2 ELSE 0)
    + (IF Mentions(font, <<"i","t","a","l","i","c">>)
          \/ Mentions(font, <<"o","b","l","i","q","u","e">>)
       THEN 1 ELSE 0)

IsBlankText(text) == \A i \in 1..Len(text) : text[i] \in Whitespace

FormattedRun(span) ==
    IF IsBlankText(span.text) THEN span.text
    ELSE LET stars == [i \in 1..EmphasisStars(span.font) |-> "*"]
         IN  stars \o span.text \o stars

(* C22: for every line the second pass of convert_pdf_to_md formats, each  *)
(* run with text that is not all whitespace is wrapped in three asterisks  *)
(* when its font name mentions bold or black and italic or oblique, in two *)
(* when only bold or black, in one when only italic or oblique, in         *)
(* whatever case the name is spelt, and is left as it is otherwise; a run  *)
(* whose text is empty or all whitespace is passed through unchanged       *)
(* whatever its font.                                                      *)
C22_RunFormatting ==
    \A c \in Slots :
        PdfCall(c) =>
            \A i \in 1..Len(line_log[c]) :
                LET spans == DocLines(Pages(c))[i]
                    span_texts == line_log[c][i].span_texts
                IN  /\ Len(span_texts) = Len(spans)
                    /\ \A j \in 1..Len(spans) : span_texts[j] = FormattedRun(spans[j])

\* A blank run in a black italic font was passed through and the run next
\* to it, in the same font, was wrapped in three asterisks.
C22_Witness ==
    \E c \in Slots :
        /\ PdfCall(c)
        /\ Pages(c) = << <<BlkTabbed12>> >>
        /\ Len(line_log[c]) = 1
        /\ line_log[c][1].span_texts
              = << <<" ">>, <<"*","*","*","a","\r","\t","b","\t","*","*","*">> >>

----------------------------------------------------------------------------

\* The formatted runs of a line, joined and trimmed.
TrimmedLine(spans) == Strip(Concat([j \in 1..Len(spans) |-> FormattedRun(spans[j])]))

\* The text with its carriage returns dropped and each tab as four spaces.
RECURSIVE Cleaned(_)
Cleaned(text) ==
    IF text = <<>> THEN <<>>
    ELSE (IF Head(text) = "\r" THEN <<>>
          ELSE IF Head(text) = "\t" THEN <<" ", " ", " ", " ">>
          ELSE <<Head(text)>>) \o Cleaned(Tail(text))

\* No carriage return, no tab, no blank at either end.
IsCleanText(text) ==
    /\ \A i \in 1..Len(text) : text[i] \notin {"\r", "\t"}
    /\ text # <<>> => text[1] \notin Whitespace /\ text[Len(text)] \notin Whitespace

\* The text part of an output entry: what follows the list or heading mark.
TextPart(e) ==
    IF IsListEntry(e) THEN SubSeq(e, 3, Len(e))
    ELSE IF IsHeadingEntry(e) THEN SubSeq(e, HashPrefixLen(e) + 2, Len(e))
    ELSE e

(* C23: a line of a PDF whose formatted runs, joined, are empty after      *)
(* trimming adds no entry to the output of convert_pdf_to_md; the text of  *)
(* every other visited line is the trimmed runs with carriage returns      *)
(* dropped and tabs as four spaces, and neither it nor the text part of    *)
(* any text entry of the output holds a carriage return or a tab or        *)
(* begins or ends with whitespace.                                         *)
C23_LineAssembly ==
    \A c \in Slots :
        PdfCall(c) =>
            LET lines == DocLines(Pages(c))
                n == Len(line_log[c])
                texts == TextEntries(md_lines[c])
            IN  /\ \A i \in 1..n :
                      /\ line_log[c][i].raw_line = Cleaned(TrimmedLine(lines[i]))
                      /\ IsCleanText(line_log[c][i].raw_line)
                      /\ TrimmedLine(lines[i]) = <<>> <=> line_log[c][i].raw_line = <<>>
                /\ Len(texts) <= Cardinality({i \in 1..n : TrimmedLine(lines[i]) # <<>>})
                /\ \A k \in 1..Len(texts) : IsCleanText(TextPart(texts[k]))

\* The blank line of the first block was passed over without an entry and
\* the second pass went on to the next block, whose line was assembled
\* with its carriage return dropped and its tabs as four spaces each.
C23_Witness ==
    \E c \in Slots :
        /\ PdfCall(c)
        /\ Pages(c) = << <<BlkBlank14, BlkTabbed12>> >>
        /\ md_lines[c] = <<>>
        /\ Len(line_log[c]) = 2
        /\ line_log[c][1].raw_line = <<>>
        /\ line_log[c][2].raw_line
              = <<"*","*","*","a"," "," "," "," ","b"," "," "," "," ","*","*","*">>

----------------------------------------------------------------------------

\* What an output entry is: a page break, an image line or a text line.
EntryKind(e) ==
    IF e = PageBreak THEN "break" ELSE IF IsImageEntry(e) THEN "image" ELSE "text"

\* The entries the traversal of a page's blocks is claimed to yield: one
\* per line that is not blank, one per image that can be extracted.
RECURSIVE KindsOfBlocks(_, _)
KindsOfBlocks(blocks, include_images) ==
    IF blocks = <<>> THEN <<>>
    ELSE LET b == Head(blocks)
             own == IF b.type = 0
                    THEN [i \in 1..Len(NonBlankLines(<< <<b>> >>)) |-> "text"]
                    ELSE IF include_images /\ IsGoodImage(b) THEN <<"image">>
                    ELSE <<>>
         IN  own \o KindsOfBlocks(Tail(blocks), include_images)

RECURSIVE KindsOfPages(_, _)
KindsOfPages(pages, include_images) ==
    IF pages = <<>> THEN <<>>
    ELSE KindsOfBlocks(Head(pages), include_images)
         \o (IF Len(pages) > 1 THEN <<"break">> ELSE <<>>)
         \o KindsOfPages(Tail(pages), include_images)

(* C24: when a call of convert_pdf_to_md without an image directory has    *)
(* ended, its output entries are, in the order page, block, line of the    *)
(* input, one text entry for every line that is not blank and one image    *)
(* entry for every image block that can be extracted, equal lines and      *)
(* repeated images each with an entry of their own.                        *)
C24_OrderPreserved ==
    \A c \in Slots :
        (Ended(c) /\ PdfCall(c) /\ args[c].images_dir = NoDir)
        => [i \in 1..Len(md_lines[c]) |-> EntryKind(md_lines[c][i])]
              = KindsOfPages(Pages(c), args[c].include_images)

----------------------------------------------------------------------------

\* The entries with a blank line between each two of them.
RECURSIVE BlankLineJoined(_)
BlankLineJoined(entries) ==
    IF entries = <<>> THEN <<>>
    ELSE IF Len(entries) = 1 THEN entries[1]
    ELSE entries[1] \o <<"\n", "\n">> \o BlankLineJoined(Tail(entries))

\* The text ends with the given suffix.
EndsWith(text, suffix) ==
    /\ Len(suffix) <= Len(text)
    /\ SubSeq(text, Len(text) - Len(suffix) + 1, Len(text)) = suffix

(* C25: in convert_docx_to_md every paragraph read so far has exactly one  *)
(* entry, in paragraph order: a blank entry when its trimmed text is       *)
(* empty, whatever its style, and an entry that ends with its trimmed text *)
(* otherwise; the result is the entries joined by a blank line and         *)
(* trimmed, and is the empty string when every paragraph is empty.         *)
C25_DocxOneEntryPerParagraph ==
    \A c \in Slots :
        (DocxCall(c) /\ pc[c] \in {"docx_paras", "done"})
        => LET paras == args[c].file.paras
               n == pos[c].page - 1
           IN  /\ Len(md_lines[c]) = n
               /\ \A i \in 1..n :
                     LET text == Strip(paras[i].text)
                     IN  IF text = <<>> THEN md_lines[c][i] = <<>>
                         ELSE EndsWith(md_lines[c][i], text)
               /\ pc[c] = "done" =>
                     /\ n = Len(paras)
                     /\ ret[c] = Value(Strip(BlankLineJoined(md_lines[c])))
                     /\ (\A i \in 1..n : Strip(paras[i].text) = <<>>) => ret[c] = Value(<<>>)

\* A blank paragraph with a heading style, then a list paragraph: the blank
\* entry carries no mark and is trimmed away from the result.
C25_Witness ==
    \E c \in Slots :
        /\ DocxCall(c) /\ pc[c] = "done"
        /\ args[c].file.paras
              = << Para(<<" ">>, TRUE, <<"H","e","a","d","i","n","g"," ","2">>),
                   Para(<<" ", "a", " ">>, TRUE, <<"L","i","s","t"," ","B","u","l","l","e","t">>) >>
        /\ md_lines[c] = << <<>>, <<"-", " ", "a">> >>
        /\ ret[c] = Value(<<"-", " ", "a">>)

----------------------------------------------------------------------------

\* images_dir/page<N>_img<R>.<ext>
NamedFile(dir, N, R, ext) ==
    dir \o (IF dir[Len(dir)] = "/" THEN <<>> ELSE <<"/">>)
        \o <<"p","a","g","e">> \o Str(N) \o <<"_","i","m","g">> \o Str(R) \o <<".">> \o ext

\* The images of a document that can be extracted, with their page numbers.
GoodImages(file) ==
    UNION {{[page |-> p, xref |-> file.pages[p][k].xref,
             ext |-> file.pages[p][k].extract.ext,
             image |-> file.pages[p][k].extract.image] :
               k \in {j \in 1..Len(file.pages[p]) : IsGoodImage(file.pages[p][j])}} :
           p \in 1..Len(file.pages)}

\* The conversions with an image directory seen in a state, running or
\* finished, each with the image links it has emitted.
SeenWriters ==
    {[who |-> c, dir |-> args[c].images_dir, file |-> args[c].file,
      links |-> {md_lines[c][i] : i \in 1..Len(md_lines[c])}] :
        c \in {d \in Slots : PdfCall(d) /\ args[d].images_dir # NoDir}}
    \cup
    {[who |-> Cardinality(Slots) + i, dir |-> outcomes[i].args.images_dir,
      file |-> outcomes[i].args.file,
      links |-> {LinkOf(p) : p \in {q \in DOMAIN fs.files :
                                       Contains(outcomes[i].ret.value, LinkOf(q))}}] :
        i \in {j \in 1..Len(outcomes) :
                 outcomes[j].args.file.kind = "pdf" /\ outcomes[j].args.images_dir # NoDir}}

Wrote(x, path) == LinkOf(path) \in x.links

\* Every file a conversion has written is named by its directory and the
\* page number, resource id and extension of one of its images.
NamedByPageAndXref ==
    \A x \in SeenWriters :
        \A p \in DOMAIN fs.files :
            Wrote(x, p) => \E g \in GoodImages(x.file) : p = NamedFile(x.dir, g.page, g.xref, g.ext)

\* Two conversions into the same directory that have both written an image
\* of the same page number, resource id and extension have written one
\* file, which holds the bytes one of its writers gave it.
SameDirCollides ==
    \A x, y \in SeenWriters :
        (x.who # y.who /\ x.dir = y.dir)
        => \A g \in GoodImages(x.file) :
              LET p == NamedFile(x.dir, g.page, g.xref, g.ext)
              IN  (/\ \E h \in GoodImages(y.file) :
                         h.page = g.page /\ h.xref = g.xref /\ h.ext = g.ext
                   /\ Wrote(x, p) /\ Wrote(y, p))
                  => /\ p \in DOMAIN fs.files
                     /\ \E z \in SeenWriters : \E k \in GoodImages(z.file) :
                           /\ p = NamedFile(z.dir, k.page, k.xref, k.ext)
                           /\ fs.files[p] = k.image

NoCommonFile(x, y) == \A p \in DOMAIN fs.files : ~(Wrote(x, p) /\ Wrote(y, p))

(* C26 as claimed: image files are named by page number, resource id and   *)
(* extension only, two conversions into the same images_dir that extract   *)
(* an image of the same page number, resource id and extension write one   *)
(* path, and two conversions given distinct images_dir values never write  *)
(* to the same path.                                                       *)
C26_DistinctDirsNeverCollide ==
    /\ NamedByPageAndXref
    /\ SameDirCollides
    /\ \A x, y \in SeenWriters : x.dir # y.dir => NoCommonFile(x, y)

(* C26 as amended: the same, with the last part for two conversions whose  *)
(* images_dir values name different directories: values that differ only   *)
(* by a trailing separator name the same directory and do collide.         *)
C26_DistinctDirectoriesNeverCollide ==
    /\ NamedByPageAndXref
    /\ SameDirCollides
    /\ \A x, y \in SeenWriters : DirOf(x.dir) # DirOf(y.dir) => NoCommonFile(x, y)

\* Two overlapping conversions into DirOne have each extracted an image of
\* page 1 with resource id 5, with different bytes, and both stand before
\* the write to d1/page1_img5.png: the one that writes last overwrites.
C26_Witness ==
    /\ pc = <<"write", "write">>
    /\ args[1].images_dir = DirOne /\ args[2].images_dir = DirOne
    /\ img[1].path = img[2].path
    /\ img[1].path = <<"d","1","/","p","a","g","e","1","_","i","m","g","5",".","p","n","g">>
    /\ img[1].data # img[2].data

----------------------------------------------------------------------------

(* C27: a call of convert_pdf_to_md holds at most one document handle; the *)
(* handle is open throughout both passes and is closed exactly once when   *)
(* the call has ended, whether it returned, raised from a page or a text   *)
(* line, or swallowed image errors on its way; a call whose open failed    *)
(* has no handle to close.                                                 *)
C27_ClosedExactlyOnce ==
    \A c \in Slots :
        "fitz" \in opened[c] =>
            /\ handle[c].opens = (IF FitzOpen(args[c].file) = "doc" THEN 1 ELSE 0)
            /\ pc[c] \in {"pass1", "pass2", "makedirs", "write", "close"} =>
                  handle[c] = [opens |-> 1, closes |-> 0]
            /\ Ended(c) => handle[c].closes = handle[c].opens

\* An image error was swallowed, then a text line raised re.error: the
\* call has ended with the error and its handle was closed once.
C27_Witness ==
    \E c \in Slots :
        /\ Pages(c) = << <<ImgRaises, BlkText12>> >>
        /\ args[c].include_images
        /\ extracted[c] = <<6>>
        /\ pc[c] = "raised" /\ ret[c] = Raised("re.error")
        /\ handle[c] = [opens |-> 1, closes |-> 1]

\* The only page of the document could not be read: the call has ended
\* with the error of the first pass and its handle was closed once.
C27_PageErrorReached ==
    \E c \in Slots :
        /\ args[c].file = DamagedFile
        /\ pc[c] = "raised" /\ ret[c] = Raised("page_error")
        /\ handle[c] = [opens |-> 1, closes |-> 1]

----------------------------------------------------------------------------

\* The rounded sizes of the document's runs whose text is not empty.
TextRunSizes(pages) ==
    LET runs == Concat(DocLines(pages))
    IN  {Round2(runs[i].size) : i \in {j \in 1..Len(runs) : runs[j].text # <<>>}}

(* C28: in convert_pdf_to_md a line whose dominant size is the largest     *)
(* size among the document's runs with text is ranked at heading level 1,  *)
(* and the sizes the heading map ranks are sizes of runs with text: a run  *)
(* with empty text occupies no level.                                      *)
C28_LargestTextIsLevelOne ==
    \A c \in Slots :
        (PdfCall(c) /\ pc[c] \in Pass2Pcs)
        => LET S == TextRunSizes(Pages(c))
           IN  /\ DOMAIN size_to_heading[c] \subseteq S
               /\ \A i \in 1..Len(line_log[c]) :
                     (/\ HasText(DocLines(Pages(c))[i])
                      /\ \A k \in S : k <= line_log[c][i].dominant_size)
                     => line_log[c][i].heading_level = 1

----------------------------------------------------------------------------
(* The routes: routes/financial_data.py (upload, analyze) and              *)
(* routes/report_analysis.py (upload, generate-parameters,                 *)
(* evaluate-parameter).  A handler is a coroutine: it runs without         *)
(* interruption from one await to the next, and other handlers run while   *)
(* it awaits the conversion thread.                                        *)

\* Bound of the model: the requests received in a run.
MaxRequests == 3

\* Truthiness of an optional string: None and "" are false.
Truthy(v) == ~v.none /\ v.text # <<>>

\* d[k] = v on a dict.
Put(d, k, v) == [x \in DOMAIN d \cup {k} |-> IF x = k THEN v ELSE d[x]]

\* str(uuid.uuid4()): an id no upload has been given before.
FileId(n) == <<"f">> \o Str(n)

FreshId == FileId(Cardinality(DOMAIN uploaded_files \cup DOMAIN uploaded_reports) + 1)

\* A file_id that no upload was ever given.
UnknownId == FileId(0)

\* tempfile.gettempdir()
TempDir == <<"t","m","p">>

ReportEndpoints == {"generate_parameters", "evaluate_parameter"}

\* The uploads a client may send: file name and content.
Uploads ==
    { << <<"r",".","p","d","f">>, PdfFile(<<>>) >>,
      << <<"r",".","p","d","f">>, PdfFile(<< <<ImgOk>> >>) >>,
      << <<"r",".","p","d","f">>, PdfFile(<< <<BlkText12>> >>) >>,
      << <<"R",".","P","D","F">>, PdfFile(<< <<ImgOk>> >>) >>,
      << <<"r",".","d","o","c","x">>,
         DocxFile(<<Para(<<"a">>, TRUE, <<"H","e","a","d","i","n","g"," ","2">>)>>) >>,
      << <<"r",".","t","x","t">>, CorruptFile >>,
      << <<>>, CorruptFile >> }

\* The requests a client may send in the current state.
RequestInputs ==
    {Request(u[1], u[2][1], u[2][2], Absent, Absent) :
        u \in {"fin_upload", "rep_upload"} \X Uploads}
    \cup {Request("fin_analyze", <<>>, NoFile, Absent, Given(id)) :
            id \in {UnknownId} \cup DOMAIN uploaded_files}
    \cup {Request(k[1], <<>>, NoFile, k[2], k[3]) :
            k \in ReportEndpoints \X {Absent, Given(<<"t">>)}
                    \X ({Absent, Given(UnknownId)}
                          \cup {Given(id) : id \in DOMAIN uploaded_reports})}

\* What the client receives when an HTTPException with the given status is
\* raised inside a handler's try block.  Only upload_report_document has
\* the clause "except HTTPException: raise" (report_analysis.py lines
\* 118-119); the other handlers catch Exception, of which HTTPException is
\* a subclass, and raise a new HTTPException with status 500.
Caught(endpoint, status) == IF endpoint = "rep_upload" THEN status ELSE 500

Answer(r, status) == req' = [req EXCEPT ![r].pc = "responded", ![r].status = status]

\* convert_document_to_md(file_path) run in a thread without images_dir: it
\* shares nothing with other conversions, so it ends as it ends alone.
Converted(path, file) ==
    IF Pipeline(path) = "pdf" THEN SoloRet(Args("document", path, file, NoDir, TRUE))
    ELSE IF Pipeline(path) = "docx"
         THEN IF DocumentIsNone(Document) THEN Raised("ImportError")
              ELSE IF file.kind # "docx" THEN Raised("open_error")
              ELSE Value(DocxResult([i \in 1..Len(file.paras) |-> DocxEntry(file.paras[i])]))
    ELSE Raised("ValueError")

\* A request arrives and its handler is scheduled.
Receive(r) ==
    /\ req[r].pc = "idle"
    /\ nreqs < MaxRequests
    /\ \E q \in RequestInputs : req' = [req EXCEPT ![r] = q]
    /\ nreqs' = nreqs + 1
    /\ UNCHANGED <<cvars, uploaded_files, uploaded_reports, tmp, converted>>

\* upload_financial_document, financial_data.py lines 56-86.
UploadFinancialDocument(r) ==
    /\ req[r].pc = "handler"
    /\ req[r].endpoint = "fin_upload"
    /\ LET filename == req[r].filename
           file_id == FreshId
           temp_path == PathJoin(TempDir, file_id \o PdfExt)
       IN  IF filename = <<>> \/ ~EndsWith(filename, PdfExt)
           THEN /\ Answer(r, Caught("fin_upload", 400))
                /\ UNCHANGED <<uploaded_files, tmp>>
           ELSE /\ tmp' = Put(tmp, temp_path, req[r].file)
                /\ uploaded_files' = Put(uploaded_files, file_id,
                       [filename |-> filename, path |-> temp_path, status |-> "uploaded"])
                /\ req' = [req EXCEPT ![r].pc = "responded", ![r].status = 200,
                                      ![r].file_id = Given(file_id)]
    /\ UNCHANGED <<cvars, uploaded_reports, nreqs, converted>>

\* upload_report_document, report_analysis.py lines 87-121.
UploadReportDocument(r) ==
    /\ req[r].pc = "handler"
    /\ req[r].endpoint = "rep_upload"
    /\ LET filename == req[r].filename
           suffix == Lower(Suffix(filename))
           file_id == FreshId
           temp_path == PathJoin(TempDir, file_id \o suffix)
       IN  IF filename = <<>> \/ suffix \notin {PdfExt, DocxExt}
           THEN /\ Answer(r, Caught("rep_upload", 400))
                /\ UNCHANGED <<uploaded_reports, tmp>>
           ELSE /\ tmp' = Put(tmp, temp_path, req[r].file)
                /\ uploaded_reports' = Put(uploaded_reports, file_id,
                       [filename |-> filename, path |-> temp_path, status |-> "uploaded",
                        markdown |-> Absent])
                /\ req' = [req EXCEPT ![r].pc = "responded", ![r].status = 200,
                                      ![r].file_id = Given(file_id)]
    /\ UNCHANGED <<cvars, uploaded_files, nreqs, converted>>

\* analyze_financial_document up to its await, financial_data.py lines 100-108.
AnalyzeFinancialDocument(r) ==
    /\ req[r].pc = "handler"
    /\ req[r].endpoint = "fin_analyze"
    /\ IF req[r].file_id.text \notin DOMAIN uploaded_files
       THEN Answer(r, Caught("fin_analyze", 404))
       ELSE req' = [req EXCEPT ![r].pc = "converting"]
    /\ UNCHANGED <<cvars, uploaded_files, uploaded_reports, tmp, nreqs, converted>>

\* analyze_financial_document after the conversion, lines 108-146: an error
\* of the converter, of the generators or of the database is answered 500.
AnalyzeConverted(r) ==
    /\ req[r].pc = "converting"
    /\ req[r].endpoint = "fin_analyze"
    /\ LET file_id == req[r].file_id.text
           file_path == uploaded_files[file_id].path
           res == SoloRet(Args("pdf", file_path, tmp[file_path], NoDir, TRUE))
       IN  IF res.status = "error"
           THEN Answer(r, 500) /\ UNCHANGED uploaded_files
           ELSE \E ok \in BOOLEAN :
                   IF ok
                   THEN /\ uploaded_files' =
                              [uploaded_files EXCEPT ![file_id].status = "analyzed"]
                        /\ Answer(r, 200)
                   ELSE Answer(r, 500) /\ UNCHANGED uploaded_files
    /\ UNCHANGED <<cvars, uploaded_reports, tmp, nreqs, converted>>

\* _get_report_content up to its await or its return, report_analysis.py
\* lines 52-74 and 79-82, called at lines 136 and 173.
GetReportContent(r) ==
    /\ req[r].pc = "handler"
    /\ req[r].endpoint \in ReportEndpoints
    /\ LET e == req[r].endpoint
           file_id == req[r].file_id.text
       IN  IF Truthy(req[r].report)
           THEN /\ req' = [req EXCEPT ![r].pc = "service", ![r].content = req[r].report]
                /\ UNCHANGED converted
           ELSE IF Truthy(req[r].file_id)
           THEN IF file_id \notin DOMAIN uploaded_reports
                THEN Answer(r, Caught(e, 404)) /\ UNCHANGED converted
                ELSE LET file_info == uploaded_reports[file_id]
                     IN  IF file_info.path \notin DOMAIN tmp
                         THEN Answer(r, Caught(e, 404)) /\ UNCHANGED converted
                         ELSE IF Lower(Suffix(file_info.path)) \notin {PdfExt, DocxExt}
                         THEN Answer(r, Caught(e, 400)) /\ UNCHANGED converted
                         ELSE IF Truthy(file_info.markdown)
                         THEN /\ req' = [req EXCEPT ![r].pc = "service",
                                                    ![r].content = file_info.markdown]
                              /\ UNCHANGED converted
                         ELSE /\ req' = [req EXCEPT ![r].pc = "converting"]
                              /\ converted' = Put(converted, file_id,
                                     IF file_id \in DOMAIN converted
                                     THEN converted[file_id] + 1 ELSE 1)
           ELSE Answer(r, Caught(e, 400)) /\ UNCHANGED converted
    /\ UNCHANGED <<cvars, uploaded_files, uploaded_reports, tmp, nreqs>>

\* _get_report_content after the conversion, lines 74-77: the result is
\* stored and returned; an error of the converter leaves the entry as it
\* was and is answered 500 by the handler.
ReportConverted(r) ==
    /\ req[r].pc = "converting"
    /\ req[r].endpoint \in ReportEndpoints
    /\ LET file_id == req[r].file_id.text
           file_path == uploaded_reports[file_id].path
           res == Converted(file_path, tmp[file_path])
       IN  IF res.status = "error"
           THEN Answer(r, 500) /\ UNCHANGED uploaded_reports
           ELSE /\ uploaded_reports' =
                      [uploaded_reports EXCEPT ![file_id].status = "processed",
                                               ![file_id].markdown = Given(res.value)]
                /\ req' = [req EXCEPT ![r].pc = "service", ![r].content = Given(res.value)]
    /\ UNCHANGED <<cvars, uploaded_files, tmp, nreqs, converted>>

\* The rest of generate_parameters (lines 137-158) and evaluate_parameter
\* (lines 174-185): the generator returns parameters, returns None
\* (generate_parameters raises 400 then) or raises.
Generate(r) ==
    /\ req[r].pc = "service"
    /\ \E o \in {"ok", "none", "raise"} :
          /\ o = "none" => req[r].endpoint = "generate_parameters"
          /\ Answer(r, IF o = "ok" THEN 200
                       ELSE IF o = "none" THEN Caught(req[r].endpoint, 400)
                       ELSE 500)
    /\ UNCHANGED <<cvars, uploaded_files, uploaded_reports, tmp, nreqs, converted>>

\* The response leaves the server.
Respond(r) ==
    /\ req[r].pc = "responded"
    /\ req' = [req EXCEPT ![r] = NoReq]
    /\ UNCHANGED <<cvars, uploaded_files, uploaded_reports, tmp, nreqs, converted>>

RStep(r) ==
    \/ Receive(r)
    \/ UploadFinancialDocument(r)
    \/ UploadReportDocument(r)
    \/ AnalyzeFinancialDocument(r)
    \/ AnalyzeConverted(r)
    \/ GetReportContent(r)
    \/ ReportConverted(r)
    \/ Generate(r)
    \/ Respond(r)

RNext == \E r \in Reqs : RStep(r)

\* The server after import, with python-docx installed.
RInit == Init /\ scenario = "single"

SpecRoutes == RInit /\ [][RNext]_vars

----------------------------------------------------------------------------

(* C29: in the report-analysis route convert_document_to_md is called at   *)
(* most once for an uploaded file_id, over every sequence and every        *)
(* interleaving of the requests that name the file_id.                     *)
C29_ConvertedAtMostOnce == \A id \in DOMAIN converted : converted[id] <= 1

----------------------------------------------------------------------------

IsAnswered(r, endpoints) == req[r].pc = "responded" /\ req[r].endpoint \in endpoints

(* C30: the statuses the handlers raise on purpose reach the client: 400   *)
(* for a financial-data upload whose file name does not end in ".pdf",     *)
(* which stores no entry, 404 for financial-data analyze of an unknown     *)
(* file_id, and for generate-parameters and evaluate-parameter 404 with an *)
(* unknown file_id and 400 with neither report nor file_id.                *)
C30_DeliberateStatusKept ==
    /\ \A id \in DOMAIN uploaded_files : EndsWith(uploaded_files[id].filename, PdfExt)
    /\ \A r \in Reqs :
          /\ (IsAnswered(r, {"fin_upload"}) /\ ~EndsWith(req[r].filename, PdfExt))
                => req[r].status = 400
          /\ (IsAnswered(r, {"fin_analyze"}) /\ req[r].file_id = Given(UnknownId))
                => req[r].status = 404
          /\ (IsAnswered(r, ReportEndpoints) /\ ~Truthy(req[r].report))
                => /\ req[r].file_id = Given(UnknownId) => req[r].status = 404
                   /\ req[r].file_id = Absent => req[r].status = 400

====
